---------------------------- MODULE Spec2Model ----------------------------
(***************************************************************************)
(* A model of the Dun V3 shielded-pool SDK: V3SecretManager (signature      *)
(* cache, secret derivation, ledger scan) and DunV3Client (deposit,         *)
(* withdraw, withdraw-with-change, getBalance) running against a ledger.    *)
(*                                                                         *)
(* Amounts are integers in units of 0.01 SOL (10^7 lamports); on the        *)
(* amounts used here Math.floor(x * 1e9) and Number(l) / 1e9 are exact      *)
(* inverses.  Poseidon is modelled as an ideal (injective) hash: the hash   *)
(* of a tuple is the tuple.  A process is one async call of the client; a   *)
(* step is the code between two awaits that wait on the wallet or the RPC.  *)
(***************************************************************************)
EXTENDS Integers, Sequences, FiniteSets, TLC

(* ------------------------------ bounds -------------------------------- *)

\* number of client operations started in one behaviour
MaxOps == 2
\* number of environment events in one behaviour: failed RPC calls, failed
\* simulations, signMessage transport errors, clearCache calls, wallet switches
MaxEnv == 1
\* collision retries of deposit (100 in the source, scaled)
maxAttempts == 2
\* slot indices tried by the scan (100 in the source, scaled)
ScanMaxNonce == 2
\* bytes of the signature that make the master key (31 in the source, scaled)
KeyBytes == 2
\* values of one byte (256 in the source, scaled)
ByteBase == 4

Procs == {1, 2}
Wallets == {1, 2}

\* the amounts deposit is called with: 0.1 SOL and 0.07 SOL (not in the vocabulary)
DepositAmounts == {10, 7}
\* the amounts withdraw is called with: 0.1 SOL and 0.5 SOL
WithdrawAmounts == {10, 50}

None == <<>>

(* --------------------------- pure functions --------------------------- *)

\* COMMON_AMOUNTS, in units of 0.01 SOL
COMMON_AMOUNTS == <<1, 5, 10, 50, 100, 500, 1000, 5000, 10000>>

InVocabulary(amount) == \E i \in 1..Len(COMMON_AMOUNTS) : COMMON_AMOUNTS[i] = amount

\* poseidon([a, b]) and poseidon([a, b, c]): ideal hash
Poseidon2(a, b) == <<a, b>>
Poseidon3(a, b, c) == <<a, b, c>>

\* the signature a wallet gives for the fixed message (ed25519 is deterministic)
WalletSig(w) == <<w, 3 - w, w, 0>>

Min2(a, b) == IF a < b THEN a ELSE b

RECURSIVE BytesToInt(_)
BytesToInt(bytes) ==
    IF Len(bytes) = 0 THEN 0
    ELSE BytesToInt(SubSeq(bytes, 1, Len(bytes) - 1)) * ByteBase + bytes[Len(bytes)]

\* deriveMasterKey: the first KeyBytes bytes of the signature, big-endian
DeriveMasterKeyOf(signature) ==
    BytesToInt(SubSeq(signature, 1, Min2(KeyBytes, Len(signature))))

\* deriveSecret once the signature is known
DeriveSecretOf(signature, nonce, amount) ==
    Poseidon3(DeriveMasterKeyOf(signature), nonce, amount)

computeCommitment(amount, secret) == Poseidon2(amount, secret)

\* a nullifier that does not depend on the commitment
computeNullifier_SecretOnly(secret, commitment) == Poseidon2(secret, secret)

\* nullifier = Poseidon(secret, commitment)
computeNullifier(secret, commitment) == Poseidon2(secret, commitment)

\* the commitment a wallet's deposit of `amount` at slot `nonce` creates
CommitmentOf(w, nonce, amount) ==
    computeCommitment(amount, DeriveSecretOf(WalletSig(w), nonce, amount))

\* the address of a commitment account, findProgramAddressSync(['commitment',
\* commitmentBytes]): a hash of the commitment, so an injective map whose order
\* has nothing to do with the order of creation.  Addresses compare as numbers
AddressOf(commitment) ==
    LET secret == commitment[2]
    IN IF Len(secret) = 3
       THEN ((((secret[2] * 3) + 2) % 5) + (5 * (secret[2] \div 5))) * 10000000
              + secret[1] * 10001 + commitment[1]
       ELSE 0 - (secret[1] * 10001 + commitment[1] + 1)

(* ------------------------------- scan --------------------------------- *)

NumAmounts == Len(COMMON_AMOUNTS)

\* candidates are numbered in the order the three loops of scanCommitments
\* visit them: element i (1-based), amount index ai (1-based), nonce
CandidateIndex(i, ai, nonce) ==
    (i - 1) * NumAmounts * ScanMaxNonce + (ai - 1) * ScanMaxNonce + nonce

NumCandidates(accounts) == Len(accounts) * NumAmounts * ScanMaxNonce

\* the inner loop: the first nonce, among the candidates from `from` on, whose
\* commitment matches (the break leaves the nonce loop only)
FirstMatchingNonce(signature, commitment, i, ai, from) ==
    LET amount == COMMON_AMOUNTS[ai]
        S == {n \in 0..(ScanMaxNonce - 1) :
                /\ CandidateIndex(i, ai, n) >= from
                /\ computeCommitment(amount, DeriveSecretOf(signature, n, amount)) = commitment}
    IN IF S = {} THEN -1 ELSE CHOOSE n \in S : \A m \in S : n <= m

RECURSIVE ScanAmounts(_, _, _, _, _)
ScanAmounts(signature, commitment, i, ai, from) ==
    IF ai > NumAmounts THEN <<>>
    ELSE LET n == FirstMatchingNonce(signature, commitment, i, ai, from)
             amount == COMMON_AMOUNTS[ai]
             here == IF n < 0 THEN <<>>
                     ELSE << [commitment |-> commitment, amount |-> amount,
                              secret |-> DeriveSecretOf(signature, n, amount),
                              nonce |-> n] >>
         IN here \o ScanAmounts(signature, commitment, i, ai + 1, from)

\* a scan that leaves an element at its first match
CandidatesTried_StopAtMatch(signature, commitment, i, from) ==
    {c \in (1..NumAmounts) \X (0..(ScanMaxNonce - 1)) :
        /\ CandidateIndex(i, c[1], c[2]) >= from
        /\ LET n == FirstMatchingNonce(signature, commitment, i, c[1], from)
           IN n < 0 \/ c[2] <= n
        /\ \A aj \in 1..(c[1] - 1) :
              FirstMatchingNonce(signature, commitment, i, aj, from) < 0}

\* the candidates <<amount index, nonce>> of element i whose secret and
\* commitment scanCommitments computes: for every amount, the nonces up to the
\* first match; the break leaves the nonce loop and the loop over the amounts
\* goes on with the next amount
CandidatesTried(signature, commitment, i, from) ==
    {c \in (1..NumAmounts) \X (0..(ScanMaxNonce - 1)) :
        /\ CandidateIndex(i, c[1], c[2]) >= from
        /\ LET n == FirstMatchingNonce(signature, commitment, i, c[1], from)
           IN n < 0 \/ c[2] <= n}

\* a scan that looks at the first ledger account only
ScanFrom_FirstAccountOnly(signature, accounts, i, from) ==
    IF i > 1 \/ Len(accounts) = 0 THEN <<>>
    ELSE ScanAmounts(signature, accounts[1], 1, 1, from)

RECURSIVE ScanFrom(_, _, _, _)
\* scanCommitments with the signature available from candidate `from` on
ScanFrom(signature, accounts, i, from) ==
    IF i > Len(accounts) THEN <<>>
    ELSE ScanAmounts(signature, accounts[i], i, 1, from)
           \o ScanFrom(signature, accounts, i + 1, from)

(* ---------------------------- getBalance ------------------------------ *)

\* the ledger's creation time of a commitment account (getSignaturesForAddress)
BlockTimeOf(ledgerCommits, commitment) ==
    LET S == {k \in 1..Len(ledgerCommits) : ledgerCommits[k].c = commitment}
    IN IF S = {} THEN 0 ELSE ledgerCommits[CHOOSE k \in S : TRUE].t

\* the records of getBalance before sorting; `blind` are the positions whose
\* nullifier lookup threw (caught: "Not spent"), `dark` those whose block-time
\* lookup threw (caught: blockTime stays 0)
RECURSIVE WithTime(_, _, _, _, _, _)
WithTime(owned, k, ledgerCommits, ledgerNullifiers, blind, dark) ==
    IF k > Len(owned) THEN <<>>
    ELSE LET o == owned[k]
             nullifier == computeNullifier(o.secret, o.commitment)
             isSpent == IF k \in blind THEN FALSE ELSE nullifier \in ledgerNullifiers
         IN << [commitment |-> o.commitment, amount |-> o.amount, nonce |-> o.nonce,
                isSpent |-> isSpent,
                blockTime |-> IF k \in dark THEN 0
                              ELSE BlockTimeOf(ledgerCommits, o.commitment)] >>
            \o WithTime(owned, k + 1, ledgerCommits, ledgerNullifiers, blind, dark)

\* the comparator of the sort: unspent first, then newest first
Compare(a, b) ==
    IF a.isSpent # b.isSpent THEN (IF a.isSpent THEN 1 ELSE -1)
    ELSE b.blockTime - a.blockTime

RECURSIVE InsertSorted(_, _)
InsertSorted(sorted, x) ==
    IF Len(sorted) = 0 THEN <<x>>
    ELSE IF Compare(sorted[Len(sorted)], x) <= 0 THEN Append(sorted, x)
    ELSE Append(InsertSorted(SubSeq(sorted, 1, Len(sorted) - 1), x), sorted[Len(sorted)])

RECURSIVE SortRecords(_)
\* Array.prototype.sort with the comparator (a stable sort)
SortRecords(records) ==
    IF Len(records) = 0 THEN <<>>
    ELSE InsertSorted(SortRecords(SubSeq(records, 1, Len(records) - 1)),
                      records[Len(records)])

RECURSIVE TotalOf(_)
TotalOf(records) ==
    IF Len(records) = 0 THEN 0
    ELSE (IF records[1].isSpent THEN 0 ELSE records[1].amount) + TotalOf(Tail(records))

StripTime(records) ==
    [k \in 1..Len(records) |->
        [commitment |-> records[k].commitment, amount |-> records[k].amount,
         nonce |-> records[k].nonce, isSpent |-> records[k].isSpent]]

\* a getBalance whose total counts the spent records too
BalanceOf_TotalOfAll(owned, ledgerCommits, ledgerNullifiers, blind, dark) ==
    LET withTime == WithTime(owned, 1, ledgerCommits, ledgerNullifiers, blind, dark)
    IN [totalBalance |-> TotalOf([k \in 1..Len(withTime) |->
                                     [withTime[k] EXCEPT !.isSpent = FALSE]]),
        commitments |-> StripTime(SortRecords(withTime))]

\* the value getBalance returns from the scan's result
BalanceOf(owned, ledgerCommits, ledgerNullifiers, blind, dark) ==
    LET withTime == WithTime(owned, 1, ledgerCommits, ledgerNullifiers, blind, dark)
    IN [totalBalance |-> TotalOf(withTime),
        commitments |-> StripTime(SortRecords(withTime))]

(* ------------------------------- state -------------------------------- *)

VARIABLES
    commits,            \* ledger: commitment accounts in creation order, [c, t]
    nullifiers,         \* ledger: the nullifier accounts that exist
    ataExists,          \* ledger: the recipient's token account exists
    txlog,              \* the transactions the ledger has executed
    cachedSignature,    \* V3SecretManager.cachedSignature (None for null)
    signatureRejected,  \* V3SecretManager.signatureRejected
    prompts,            \* signMessage invocations since the last clearCache
    signed,             \* signatures the wallet returned since the last clearCache
    connected,          \* the wallet the UI's client is constructed with
    pc,                 \* per call: where it is suspended
    loc,                \* per call: its local variables
    ops,                \* operations started
    env,                \* environment events so far
    rnd,                \* random secrets drawn so far
    scenario,           \* which initial ledger the behaviour started from
    initPromise,        \* per instance: initPromise (null, or the promise's state)
    initialized,        \* per instance: initialized
    initStage,          \* per instance: where the initialization is
    initStarts,         \* per instance: initializations started
    icall,              \* per instance and caller: where its init() call is
    input,              \* the arguments a pure function of the SDK is called with
    output,             \* what that call returned or threw
    paymentRequests,    \* V5 ledger: status of the payment request at each address
    now,                \* the wall clock, in seconds
    prPc,               \* per createPaymentRequest call: where it is suspended
    prLoc,              \* per createPaymentRequest call: its local variables
    prLog,              \* the instructions DunV5Client has submitted
    prOps,              \* createPaymentRequest calls started
    prFaults,           \* failed RPC reads of the V5 client
    commitmentAccounts, \* V5 ledger: <<amount, slot>> of the payer's commitment accounts that exist
    payeeTokenAccount,  \* V5 ledger: the payee's token account exists
    requestStatus,      \* V5 ledger: status of each payment request to be paid
    ptPc,               \* per privacyTransfer call: where it is suspended
    ptLoc,              \* per privacyTransfer call: its local variables
    ptLog,              \* the transactions privacyTransfer has submitted
    ptOps,              \* privacyTransfer calls started
    ptFaults,           \* environment events of the privacyTransfer runs
    userNonce,          \* User table: the nonce stored for each wallet address (NoUser for no row)
    nonceCount,         \* nonces generateNonce has produced
    signatures,         \* the <<wallet, message>> signatures the wallets have made
    loginLog,           \* the loginWithWallet calls made and what they returned
    loginFaults         \* failed signIn calls

clientVars == <<commits, nullifiers, ataExists, txlog, cachedSignature, signatureRejected,
                prompts, signed, connected, pc, loc, ops, env, rnd, scenario>>

initVars == <<initPromise, initialized, initStage, initStarts, icall>>

pureVars == <<input, output>>

v5Vars == <<paymentRequests, now, prPc, prLoc, prLog, prOps, prFaults>>

ptVars == <<commitmentAccounts, payeeTokenAccount, requestStatus, ptPc, ptLoc, ptLog,
            ptOps, ptFaults>>

loginVars == <<userNonce, nonceCount, signatures, loginLog, loginFaults>>

vars == <<clientVars, initVars, pureVars, v5Vars, ptVars, loginVars>>

ledgerVars == <<commits, nullifiers, ataExists, txlog>>
managerVars == <<cachedSignature, signatureRejected>>

NoBalance == [totalBalance |-> 0, commitments |-> <<>>]

NoRecord == [commitment |-> None, amount |-> 0, nonce |-> 0, isSpent |-> FALSE]

IdleLoc ==
    [op |-> "none", w |-> 1, amount |-> 0, accounts |-> <<>>, cursor |-> 0,
     ctx |-> "none", owned |-> <<>>, balance |-> NoBalance, scanned |-> FALSE,
     nonce |-> 0, attempts |-> 0, secret |-> None, commitment |-> None,
     sigUsed |-> None, selected |-> NoRecord, nullifier |-> None, change |-> 0,
     newCommitment |-> None, simulated |-> FALSE, sent |-> FALSE, rpc |-> FALSE, asked |-> FALSE,
     logs |-> FALSE, result |-> "none"]

\* the ledger after wallet 1 deposited `amount` at the slots 0 .. n-1, two
\* deposits to a block
DepositedLedger(amount, n) ==
    [k \in 1..n |-> [c |-> CommitmentOf(1, k - 1, amount), t |-> (k + 1) \div 2]]

InitialLedger(s) ==
    CASE s = "empty" -> <<>>
      [] s = "one"   -> DepositedLedger(100, 1)
      [] s = "full"  -> DepositedLedger(10, maxAttempts)
      [] s = "cent"  -> DepositedLedger(1, 1)
      [] s = "half"  -> DepositedLedger(50, 1)

\* the two lazily initialized singletons: v3ProofGenerator and v3SecretManager
Instances == {"generator", "manager"}

\* the callers of init()
Callers == {1, 2, 3}

\* after construction: initialized = false, initPromise = null
NotLoaded ==
    /\ initPromise = [i \in Instances |-> "null"]
    /\ initialized = [i \in Instances |-> FALSE]
    /\ initStage = [i \in Instances |-> "none"]
    /\ initStarts = [i \in Instances |-> 0]
    /\ icall = [i \in Instances |-> [c \in Callers |-> "idle"]]

\* after the first init() of each instance has completed
Loaded ==
    /\ initPromise = [i \in Instances |-> "fulfilled"]
    /\ initialized = [i \in Instances |-> TRUE]
    /\ initStage = [i \in Instances |-> "done"]
    /\ initStarts = [i \in Instances |-> 1]
    /\ icall = [i \in Instances |-> [c \in Callers |-> "idle"]]

\* the V5 amounts createPaymentRequest is called with: 0.1 SOL, 0.5 SOL and
\* 0.07 SOL (not in the vocabulary)
V5Amounts == {10, 50, 7}
\* the seconds the wall clock goes through
MaxClock == 2
\* the createPaymentRequest calls in flight at once
V5Calls == {1, 2}
\* createPaymentRequest calls started in one behaviour
MaxV5Ops == 3
\* failed RPC reads of the V5 client in one behaviour
MaxV5Faults == 1

\* the address of a payment request: findProgramAddressSync of the payee, the
\* amount and the timestamp in seconds (one payee here)
V5Addresses == {<<amount, timestamp>> : amount \in V5Amounts, timestamp \in 1..MaxClock}

V5IdleLoc ==
    [amount |-> 0, timestamp |-> 0, connected |-> TRUE, seen |-> "none", result |-> "none"]

\* no payment request exists and no createPaymentRequest call was made
NoRequests ==
    /\ paymentRequests = [a \in V5Addresses |-> "none"]
    /\ now = 1
    /\ prPc = [c \in V5Calls |-> "idle"]
    /\ prLoc = [c \in V5Calls |-> V5IdleLoc]
    /\ prLog = <<>>
    /\ prOps = 0
    /\ prFaults = 0

\* slot indices privacyTransfer probes (1000 in the source, scaled)
MAX_NONCE_ATTEMPTS == 3
\* privacyTransfer calls started in one behaviour
MaxPtOps == 2
\* environment events of the privacyTransfer runs in one behaviour: a failed
\* read, a commitment account created by another client of the wallet
MaxPtFaults == 1
\* the privacyTransfer calls in flight at once
PtCalls == {1, 2}
\* the payment requests to be paid
PtRequests == {1, 2}

\* paymentRequest.amount of a request: 0.1 SOL and 0.5 SOL
PtAmountOf(request) == IF request = 1 THEN 10 ELSE 50

PtAmounts == {PtAmountOf(r) : r \in PtRequests}

PtIdleLoc ==
    [request |-> 0, connected |-> TRUE, nonce |-> 0, probed |-> <<>>,
     needsPayeeAccount |-> FALSE, created |-> FALSE, submitted |-> FALSE,
     result |-> "none"]

\* no privacyTransfer call was made, both requests are pending
PtIdle ==
    /\ payeeTokenAccount = FALSE
    /\ requestStatus = [r \in PtRequests |-> "Pending"]
    /\ ptPc = [c \in PtCalls |-> "idle"]
    /\ ptLoc = [c \in PtCalls |-> PtIdleLoc]
    /\ ptLog = <<>>
    /\ ptOps = 0
    /\ ptFaults = 0

NoTransfers ==
    /\ commitmentAccounts = {}
    /\ PtIdle

\* nonces generateNonce produces in one behaviour
MaxNonces == 2
\* loginWithWallet calls in one behaviour
MaxLogins == 2
\* failed signIn calls in one behaviour
MaxLoginFaults == 1

\* the wallet addresses submitted: two wallets and a string that is no address
LoginAddresses == {"w1", "w2", "invalid"}

LoginWallets == {"w1", "w2"}

\* messages and nonces are numbered from 1; the nonce read when the wallet has
\* no row in the User table
NoUser == 0 - 1

\* the User table is empty, no nonce was produced and nothing was signed
NoLogins ==
    /\ userNonce = [a \in LoginWallets |-> NoUser]
    /\ nonceCount = 0
    /\ signatures = {}
    /\ loginLog = <<>>
    /\ loginFaults = 0

\* no pure function is being called
NoCall ==
    /\ input = [fn |-> "none"]
    /\ output = None

ClientInit ==
    /\ commits = InitialLedger(scenario)
    /\ nullifiers = {}
    /\ ataExists = FALSE
    /\ txlog = <<>>
    /\ cachedSignature = None
    /\ signatureRejected = FALSE
    /\ prompts = 0
    /\ signed = 0
    /\ connected = 1
    /\ pc = [p \in Procs |-> "idle"]
    /\ loc = [p \in Procs |-> IdleLoc]
    /\ ops = 0
    /\ env = 0
    /\ rnd = 0

\* the client's operations are followed from the moment the libraries are
\* loaded: every operation awaits init() before it reads any shared state
Init ==
    /\ scenario \in {"empty", "one", "full", "cent", "half"}
    /\ ClientInit
    /\ Loaded
    /\ NoCall
    /\ NoRequests
    /\ NoTransfers
    /\ NoLogins

(* ------------------------ V3SecretManager steps ----------------------- *)

\* a call returns or throws: its frame is gone, the outcome stays
Return(l, result) ==
    [pc |-> "done",
     loc |-> [l EXCEPT !.result = result, !.accounts = <<>>, !.owned = <<>>,
                       !.cursor = 0, !.ctx = "none", !.secret = None]]

Throw(l, error) == Return(l, error)

\* the collision loop with its bound off by one
CollisionLoop_OffByOne(l) ==
    IF l.attempts <= maxAttempts
    THEN [pc |-> "dep_check", loc |-> l]
    ELSE [pc |-> "done", loc |-> [l EXCEPT !.result = "SlotExhausted"]]

\* deposit after a collision: the loop goes on while attempts < maxAttempts,
\* and the check after it throws
CollisionLoop(l) ==
    IF l.attempts < maxAttempts
    THEN [pc |-> "dep_check", loc |-> l]
    ELSE Throw(l, "SlotExhausted")

\* what deriveSecret's caller does with the secret, by call site
AfterDerive(l, ctx, signature) ==
    CASE ctx = "dep_derive" ->
           LET secret == DeriveSecretOf(signature, l.nonce, l.amount)
           IN [pc |-> "dep_check",
               loc |-> [l EXCEPT !.secret = secret, !.sigUsed = signature,
                                 !.commitment = computeCommitment(l.amount, secret),
                                 !.attempts = 0, !.ctx = "none"]]
      [] ctx = "dep_loop" ->
           LET secret == DeriveSecretOf(signature, l.nonce, l.amount)
           IN CollisionLoop([l EXCEPT !.secret = secret, !.sigUsed = signature,
                                      !.commitment = computeCommitment(l.amount, secret),
                                      !.attempts = l.attempts + 1, !.ctx = "none"])
      [] ctx = "wd_derive" ->
           LET secret == DeriveSecretOf(signature, l.selected.nonce, l.selected.amount)
           IN [pc |-> "wd_ata",
               loc |-> [l EXCEPT !.secret = secret, !.sigUsed = signature,
                                 !.nullifier = computeNullifier(secret, l.selected.commitment),
                                 !.ctx = "none"]]

\* getWalletSignature, up to the signMessage call
GetWalletSignature(cached, rejected) ==
    IF cached # None THEN "cached"
    ELSE IF rejected THEN "rejected"
    ELSE "prompt"

\* deriveSecret called by deposit or withdraw: an error propagates
DeriveResume(l, ctx, cached, rejected) ==
    LET how == GetWalletSignature(cached, rejected)
    IN CASE how = "cached"   -> AfterDerive(l, ctx, cached)
         [] how = "rejected" -> Throw(l, "SignatureRejected")
         [] how = "prompt"   -> [pc |-> "sign_wait",
                                 loc |-> [l EXCEPT !.ctx = ctx, !.asked = TRUE]]

\* scanCommitments at candidate l.cursor: every error of deriveSecret is
\* caught and the next candidate is tried
ScanResume(l, cached, rejected) ==
    LET how == GetWalletSignature(cached, rejected)
        found(owned) == [pc |-> "gb_check",
                         loc |-> [l EXCEPT !.owned = owned, !.ctx = "none",
                                           !.sigUsed = IF how = "cached" THEN cached
                                                       ELSE l.sigUsed]]
    IN IF l.cursor >= NumCandidates(l.accounts) THEN found(<<>>)
       ELSE CASE how = "cached"   -> found(ScanFrom(cached, l.accounts, 1, l.cursor))
              [] how = "rejected" -> found(<<>>)
              [] how = "prompt"   -> [pc |-> "sign_wait",
                                      loc |-> [l EXCEPT !.ctx = "scan", !.asked = TRUE]]

\* the selection that takes the last sufficient record, not the first
SelectCommitment_LastSufficient(balance, amount) ==
    LET S == {k \in 1..Len(balance.commitments) :
                /\ ~balance.commitments[k].isSpent
                /\ balance.commitments[k].amount >= amount}
    IN IF S = {} THEN 0 ELSE CHOOSE k \in S : \A m \in S : k >= m

\* the selection without its test of isSpent
SelectCommitment_IgnoresSpent(balance, amount) ==
    LET S == {k \in 1..Len(balance.commitments) :
                balance.commitments[k].amount >= amount}
    IN IF S = {} THEN 0 ELSE CHOOSE k \in S : \A m \in S : k <= m

\* Array.prototype.find of withdraw: the position of the record selected, 0 for none
SelectCommitment(balance, amount) ==
    LET S == {k \in 1..Len(balance.commitments) :
                /\ ~balance.commitments[k].isSpent
                /\ balance.commitments[k].amount >= amount}
    IN IF S = {} THEN 0 ELSE CHOOSE k \in S : \A m \in S : k <= m

MaxNonceOf(records) ==
    CHOOSE n \in {records[k].nonce : k \in 1..Len(records)} :
        \A k \in 1..Len(records) : records[k].nonce <= n

\* a getNextNonce that starts at slot 1
NextNonce_StartsAtOne(balance) ==
    IF Len(balance.commitments) = 0 THEN 1
    ELSE MaxNonceOf(balance.commitments) + 1

\* getNextNonce after getBalance returned
NextNonce(balance) ==
    IF Len(balance.commitments) = 0 THEN 0
    ELSE MaxNonceOf(balance.commitments) + 1

\* what the caller of getBalance does with its value
AfterBalance(l, balance, cached, rejected) ==
    LET l2 == [l EXCEPT !.balance = balance, !.scanned = TRUE]
    IN CASE l.op = "balance" -> Return(l2, "ok")
         [] l.op = "deposit" ->
              DeriveResume([l2 EXCEPT !.nonce = NextNonce(balance)], "dep_derive",
                           cached, rejected)
         [] l.op = "withdraw" ->
              IF Len(balance.commitments) = 0 THEN Throw(l2, "NoCommitments")
              ELSE LET k == SelectCommitment(balance, l.amount)
                       sel == balance.commitments[k]
                   IN IF k = 0 THEN Throw(l2, "InsufficientBalance")
                      ELSE DeriveResume([l2 EXCEPT !.selected = sel,
                                                   !.change = sel.amount - l.amount],
                                        "wd_derive", cached, rejected)

Step(p, r) ==
    /\ pc' = [pc EXCEPT ![p] = r.pc]
    /\ loc' = [loc EXCEPT ![p] = r.loc]
    /\ prompts' = prompts + (IF r.pc = "sign_wait" THEN 1 ELSE 0)

(* ------------------------------ actions ------------------------------- *)

Fresh(p, op, amount) ==
    [IdleLoc EXCEPT !.op = op, !.w = connected, !.amount = amount]

\* client.deposit / client.withdraw / client.getBalance is called: each runs
\* up to its first RPC call, getProgramAccounts of getBalance.  Calls are
\* anonymous: a call takes the first free process
Start(p, op, amount) ==
    /\ pc[p] \in {"idle", "done"}
    /\ \A q \in Procs : q < p => pc[q] \notin {"idle", "done"}
    /\ ops < MaxOps
    /\ ops' = ops + 1
    /\ pc' = [pc EXCEPT ![p] = "gb_fetch"]
    /\ loc' = [loc EXCEPT ![p] = Fresh(p, op, amount)]
    /\ UNCHANGED <<ledgerVars, managerVars, signed, prompts, connected, env, rnd, scenario, initVars, pureVars, v5Vars, ptVars, loginVars>>

StartDeposit(p) == \E amount \in DepositAmounts : Start(p, "deposit", amount)

StartWithdraw(p) == \E amount \in WithdrawAmounts : Start(p, "withdraw", amount)

StartGetBalance(p) == Start(p, "balance", 0)

\* the orders in which getProgramAccounts lists the commitment accounts: the
\* RPC node promises none; here the order of creation and its reverse
Enumerations(ledgerCommits) ==
    LET n == Len(ledgerCommits)
    IN {[k \in 1..n |-> ledgerCommits[k].c], [k \in 1..n |-> ledgerCommits[n + 1 - k].c]}

\* getBalance: getProgramAccounts answers, then scanCommitments runs until it
\* has to wait for the wallet
GbFetch(p) ==
    /\ pc[p] = "gb_fetch"
    /\ \E accounts \in Enumerations(commits) :
          LET l == [loc[p] EXCEPT !.rpc = TRUE, !.accounts = accounts, !.cursor = 0]
          IN Step(p, ScanResume(l, cachedSignature, signatureRejected))
    /\ UNCHANGED <<ledgerVars, managerVars, signed, connected, ops, env, rnd, scenario, initVars, pureVars, v5Vars, ptVars, loginVars>>

\* getBalance: getProgramAccounts fails; getNextNonce catches it and returns 0
GbFetchFails(p) ==
    /\ pc[p] = "gb_fetch"
    /\ env < MaxEnv
    /\ env' = env + 1
    /\ LET l == [loc[p] EXCEPT !.rpc = TRUE]
       IN Step(p, IF l.op = "deposit"
                  THEN DeriveResume([l EXCEPT !.nonce = 0], "dep_derive",
                                    cachedSignature, signatureRejected)
                  ELSE Throw(l, "RpcError"))
    /\ UNCHANGED <<ledgerVars, managerVars, signed, connected, ops, rnd, scenario, initVars, pureVars, v5Vars, ptVars, loginVars>>

\* getBalance: the nullifier and block-time lookups of every owned record, the
\* sort and the total; then the caller goes on up to its next wait
GbCheck(p) ==
    /\ pc[p] = "gb_check"
    /\ \E blind \in SUBSET (1..Len(loc[p].owned)) :
      \E dark \in SUBSET (1..Len(loc[p].owned)) :
        /\ env + Cardinality(blind) + Cardinality(dark) <= MaxEnv
        /\ env' = env + Cardinality(blind) + Cardinality(dark)
        /\ Step(p, AfterBalance(loc[p],
                                BalanceOf(loc[p].owned, commits, nullifiers, blind, dark),
                                cachedSignature, signatureRejected))
    /\ UNCHANGED <<ledgerVars, managerVars, signed, connected, ops, rnd, scenario, initVars, pureVars, v5Vars, ptVars, loginVars>>

\* what the caller of getWalletSignature does when signMessage has thrown
AfterSignError(l, error, cached, rejected) ==
    IF l.ctx = "scan"
    THEN ScanResume([l EXCEPT !.cursor = l.cursor + 1], cached, rejected)
    ELSE Throw(l, error)

\* the wallet approves: the signature is cached and returned
SignApproved(p) ==
    /\ pc[p] = "sign_wait"
    /\ LET signature == WalletSig(loc[p].w)
           l == loc[p]
       IN /\ cachedSignature' = signature
          /\ signatureRejected' = FALSE
          /\ signed' = signed + 1
          /\ Step(p, IF l.ctx = "scan"
                     THEN [pc |-> "gb_check",
                           loc |-> [l EXCEPT !.owned = ScanFrom(signature, l.accounts, 1, l.cursor),
                                             !.sigUsed = signature, !.ctx = "none"]]
                     ELSE AfterDerive(l, l.ctx, signature))
    /\ UNCHANGED <<ledgerVars, connected, ops, env, rnd, scenario, initVars, pureVars, v5Vars, ptVars, loginVars>>

\* the errors signMessage throws, by what the catch block reads of them: the
\* user's rejection as the wallet reports it (code 4001, "User rejected the
\* request."), a request that failed in transport ("Failed to fetch"), and an
\* internal error of the wallet's provider (JSON-RPC code -32603)
SignErrors ==
    {[cause |-> "user", code |-> "4001", name |-> "error", text |-> "user rejected"],
     [cause |-> "transport", code |-> "none", name |-> "error", text |-> "none"],
     [cause |-> "transport", code |-> "-32603", name |-> "error", text |-> "none"]}

\* a classification by the code 4001 only
IsRejection_UserCodeOnly(error) == error.code = "4001"

\* the test of the catch block: is the error a rejection by the user
IsRejection(error) ==
    \/ error.text \in {"user rejected", "user denied", "rejected", "denied",
                       "cancelled", "canceled"}
    \/ error.name \in {"walletconnectionerror", "walletsigntransactionerror"}
    \/ error.code \in {"4001", "-32603", "ACTION_REJECTED"}

\* signMessage throws `error`: a rejection sets the flag and the terminal
\* error is thrown, any other error is thrown again as it is
SignThrows(p, error) ==
    /\ pc[p] = "sign_wait"
    /\ env + (IF error.cause = "transport" THEN 1 ELSE 0) <= MaxEnv
    /\ env' = env + (IF error.cause = "transport" THEN 1 ELSE 0)
    /\ IF IsRejection(error)
       THEN /\ signatureRejected' = TRUE
            /\ Step(p, AfterSignError(loc[p], "SignatureRejected", cachedSignature, TRUE))
       ELSE /\ signatureRejected' = signatureRejected
            /\ Step(p, AfterSignError(loc[p], "SignatureRequestFailed",
                                      cachedSignature, signatureRejected))
    /\ UNCHANGED <<ledgerVars, cachedSignature, signed, connected, ops, rnd, scenario, initVars, pureVars, v5Vars, ptVars, loginVars>>

\* the user rejects the request
SignRejected(p) ==
    \E error \in SignErrors : error.cause = "user" /\ SignThrows(p, error)

\* signMessage fails for a reason that is not the user's
SignTransportError(p) ==
    \E error \in SignErrors : error.cause = "transport" /\ SignThrows(p, error)

\* V3SecretManager.clearCache
ClearCache ==
    /\ env < MaxEnv
    /\ ops < MaxOps \/ \E p \in Procs : pc[p] \notin {"idle", "done"}
    /\ env' = env + 1
    /\ cachedSignature' = None
    /\ signatureRejected' = FALSE
    /\ prompts' = 0
    /\ signed' = 0
    /\ UNCHANGED <<ledgerVars, connected, pc, loc, ops, rnd, scenario, initVars, pureVars, v5Vars, ptVars, loginVars>>

\* the user connects another wallet: the UI builds a new DunV3Client with it
SwitchWallet ==
    /\ env < MaxEnv
    /\ ops < MaxOps
    /\ env' = env + 1
    /\ \E w \in Wallets \ {connected} : connected' = w
    /\ UNCHANGED <<ledgerVars, managerVars, signed, prompts, pc, loc, ops, rnd, scenario, initVars, pureVars, v5Vars, ptVars, loginVars>>

(* ------------------------------- ledger ------------------------------- *)

CommitmentExists(commitment) == \E k \in 1..Len(commits) : commits[k].c = commitment

\* the on-chain program creates the accounts a transaction names and fails
\* when one of them exists already
LedgerAccepts(tx) ==
    /\ tx.nullifier # None => tx.nullifier \notin nullifiers
    /\ tx.commitment # None => ~CommitmentExists(tx.commitment)
    /\ tx.kind = "createAta" => ~ataExists

LastBlockTime == IF Len(commits) = 0 THEN 0 ELSE commits[Len(commits)].t

\* one transaction executes as a whole, in a new block
Execute(tx) ==
    /\ LedgerAccepts(tx)
    /\ nullifiers' = IF tx.nullifier # None THEN nullifiers \cup {tx.nullifier}
                     ELSE nullifiers
    /\ IF tx.commitment # None
       THEN commits' = Append(commits, [c |-> tx.commitment, t |-> LastBlockTime + 1])
       ELSE commits' = commits
    /\ ataExists' = (ataExists \/ tx.kind = "createAta")
    /\ txlog' = Append(txlog, tx)

(* ------------------------------ deposit ------------------------------- *)

\* program.methods.deposit(commitmentBytes, amount)
DepositTx(l) ==
    [kind |-> "deposit", nullifier |-> None, commitment |-> l.commitment,
     change |-> 0, simulated |-> l.simulated]

\* the collision loop: getAccountInfo(commitmentPDA) answers
DepCheck(p) ==
    /\ pc[p] = "dep_check"
    /\ LET l == loc[p]
       IN Step(p, IF ~CommitmentExists(l.commitment)
                  THEN [pc |-> "dep_sim", loc |-> l]
                  ELSE DeriveResume([l EXCEPT !.nonce = l.nonce + 1], "dep_loop",
                                    cachedSignature, signatureRejected))
    /\ UNCHANGED <<ledgerVars, managerVars, signed, connected, ops, env, rnd, scenario, initVars, pureVars, v5Vars, ptVars, loginVars>>

\* an error of the simulation that carries the logs whatever the operation
SimulationErrorHasLogs_Always(op) == TRUE

\* does the error thrown for a failed simulation carry simulation.value.logs:
\* the message of deposit is made of simulation.value.err alone, the one of
\* simpleWithdraw and withdrawWithChange adds the logs
SimulationErrorHasLogs(op) == op = "withdraw"

\* simulateTransaction answers: an error reported is thrown, nothing is sent
Simulate(p, at, tx, next) ==
    /\ pc[p] = at
    /\ Step(p, IF LedgerAccepts(tx)
               THEN [pc |-> next, loc |-> [loc[p] EXCEPT !.simulated = TRUE]]
               ELSE Throw([loc[p] EXCEPT !.logs = SimulationErrorHasLogs(loc[p].op)],
                          "SimulationFailed"))
    /\ UNCHANGED <<ledgerVars, managerVars, signed, connected, ops, env, rnd, scenario, initVars, pureVars, v5Vars, ptVars, loginVars>>

\* sendTransaction and confirmTransaction
Send(p, at, tx) ==
    /\ pc[p] = at
    /\ \/ /\ Execute(tx)
          /\ Step(p, Return([loc[p] EXCEPT !.sent = TRUE], "ok"))
       \/ /\ ~LedgerAccepts(tx)
          /\ Step(p, Throw([loc[p] EXCEPT !.sent = TRUE], "TransactionFailed"))
          /\ UNCHANGED ledgerVars
    /\ UNCHANGED <<managerVars, signed, connected, ops, env, rnd, scenario, initVars, pureVars, v5Vars, ptVars, loginVars>>

DepSimulate(p) == Simulate(p, "dep_sim", DepositTx(loc[p]), "dep_send")

DepSend(p) == Send(p, "dep_send", DepositTx(loc[p]))

(* ------------------------------ withdraw ------------------------------ *)

\* createAssociatedTokenAccountInstruction in a transaction of its own
CreateAtaTx == 
    [kind |-> "createAta", nullifier |-> None, commitment |-> None,
     change |-> 0, simulated |-> FALSE]

\* a withdrawal that does not hand its nullifier to the ledger
WithdrawTx_NoNullifier(l) ==
    [kind |-> "withdraw", nullifier |-> None, commitment |-> None,
     change |-> l.change, simulated |-> l.simulated]

\* program.methods.withdraw(nullifierBytes, amount)
WithdrawTx(l) ==
    [kind |-> "withdraw", nullifier |-> l.nullifier, commitment |-> None,
     change |-> l.change, simulated |-> l.simulated]

\* a withdrawal with change that leaves the change commitment to a later transaction
WithdrawWithChangeTx_NullifierOnly(l) ==
    [kind |-> "withdrawWithChange", nullifier |-> l.nullifier,
     commitment |-> None, change |-> l.change, simulated |-> l.simulated]

\* program.methods.withdrawWithChange(oldNullifierBytes, newCommitmentBytes, amount)
WithdrawWithChangeTx(l) ==
    [kind |-> "withdrawWithChange", nullifier |-> l.nullifier,
     commitment |-> l.newCommitment, change |-> l.change, simulated |-> l.simulated]

\* a withdraw that takes the simple path whatever the commitment holds
WithdrawalTx_AlwaysSimple(l) == WithdrawTx(l)

\* the transaction withdraw sends: with change when the commitment holds more
WithdrawalTx(l) == IF l.change > 0 THEN WithdrawWithChangeTx(l) ELSE WithdrawTx(l)

\* generateRandomSecret: a value no derivation gives
RandomSecret(r) == <<r>>

\* simpleWithdraw / withdrawWithChange after the recipient's token account is
\* there: the change commitment, then the transaction
WdBuild(l) ==
    IF l.change > 0
    THEN [l EXCEPT !.newCommitment = computeCommitment(l.change, RandomSecret(rnd))]
    ELSE l

\* getAccountInfo(recipientTokenAccount) answers
WdAta(p) ==
    /\ pc[p] = "wd_ata"
    /\ IF ataExists
       THEN /\ Step(p, [pc |-> "wd_sim", loc |-> WdBuild(loc[p])])
            /\ rnd' = rnd + (IF loc[p].change > 0 THEN 1 ELSE 0)
       ELSE /\ Step(p, [pc |-> "wd_create", loc |-> loc[p]])
            /\ rnd' = rnd
    /\ UNCHANGED <<ledgerVars, managerVars, signed, connected, ops, env, scenario, initVars, pureVars, v5Vars, ptVars, loginVars>>

\* the token account is created: sendTransaction(createTx), not simulated
WdCreate(p) ==
    /\ pc[p] = "wd_create"
    /\ \/ /\ Execute(CreateAtaTx)
          /\ Step(p, [pc |-> "wd_sim", loc |-> WdBuild([loc[p] EXCEPT !.sent = TRUE])])
          /\ rnd' = rnd + (IF loc[p].change > 0 THEN 1 ELSE 0)
       \/ /\ ~LedgerAccepts(CreateAtaTx)
          /\ Step(p, Throw([loc[p] EXCEPT !.sent = TRUE], "CreateAccountFailed"))
          /\ UNCHANGED <<ledgerVars, rnd>>
    /\ UNCHANGED <<managerVars, signed, connected, ops, env, scenario, initVars, pureVars, v5Vars, ptVars, loginVars>>

WdSimulate(p) == Simulate(p, "wd_sim", WithdrawalTx(loc[p]), "wd_send")

WdSend(p) == Send(p, "wd_send", WithdrawalTx(loc[p]))

(* ---------------------------- specification --------------------------- *)

Next ==
    \/ \E p \in Procs : StartDeposit(p)
    \/ \E p \in Procs : StartWithdraw(p)
    \/ \E p \in Procs : StartGetBalance(p)
    \/ \E p \in Procs : GbFetch(p)
    \/ \E p \in Procs : GbFetchFails(p)
    \/ \E p \in Procs : GbCheck(p)
    \/ \E p \in Procs : SignApproved(p)
    \/ \E p \in Procs : SignRejected(p)
    \/ \E p \in Procs : SignTransportError(p)
    \/ \E p \in Procs : DepCheck(p)
    \/ \E p \in Procs : DepSimulate(p)
    \/ \E p \in Procs : DepSend(p)
    \/ \E p \in Procs : WdAta(p)
    \/ \E p \in Procs : WdCreate(p)
    \/ \E p \in Procs : WdSimulate(p)
    \/ \E p \in Procs : WdSend(p)
    \/ ClearCache
    \/ SwitchWallet

Spec == Init /\ [][Next]_vars

(* --------------------------- initialization --------------------------- *)

\* an init() that tests initialized only
InitDecision_NoPromiseGuard(promise, isInitialized) ==
    IF ~isInitialized THEN "start" ELSE "return"

\* init() up to its await: join the promise there is, start the
\* initialization, or return at once
InitDecision(promise, isInitialized) ==
    IF promise # "null" THEN "join"
    ELSE IF ~isInitialized THEN "start"
    ELSE "return"

\* caller c calls init() of instance i
InitCall(i, c) ==
    /\ icall[i][c] = "idle"
    /\ LET how == InitDecision(initPromise[i], initialized[i])
       IN /\ icall' = [icall EXCEPT ![i][c] = IF how = "return" THEN "resumed"
                                               ELSE "waiting"]
          /\ IF how = "start"
             THEN /\ initPromise' = [initPromise EXCEPT ![i] = "pending"]
                  /\ initStage' = [initStage EXCEPT ![i] = "importing"]
                  /\ initStarts' = [initStarts EXCEPT ![i] = initStarts[i] + 1]
             ELSE UNCHANGED <<initPromise, initStage, initStarts>>
    /\ UNCHANGED <<initialized, clientVars, pureVars, v5Vars, ptVars, loginVars>>

\* the dynamic imports resolve: buildPoseidon is called
InitImported(i) ==
    /\ initStage[i] = "importing"
    /\ initStage' = [initStage EXCEPT ![i] = "building"]
    /\ UNCHANGED <<initPromise, initialized, initStarts, icall, clientVars, pureVars, v5Vars, ptVars, loginVars>>

\* buildPoseidon resolves: initialized = true and the promise is fulfilled
InitBuilt(i) ==
    /\ initStage[i] = "building"
    /\ initStage' = [initStage EXCEPT ![i] = "done"]
    /\ initialized' = [initialized EXCEPT ![i] = TRUE]
    /\ initPromise' = [initPromise EXCEPT ![i] = "fulfilled"]
    /\ UNCHANGED <<initStarts, icall, clientVars, pureVars, v5Vars, ptVars, loginVars>>

\* a failure that clears initPromise, so that the next init() tries again
InitFails_ClearsPromise(i) ==
    /\ initStage[i] \in {"importing", "building"}
    /\ initStage' = [initStage EXCEPT ![i] = "failed"]
    /\ initPromise' = [initPromise EXCEPT ![i] = "null"]
    /\ icall' = [icall EXCEPT ![i] = [c \in Callers |->
                     IF icall[i][c] = "waiting" THEN "failed" ELSE icall[i][c]]]
    /\ UNCHANGED <<initialized, initStarts, clientVars, pureVars, v5Vars, ptVars, loginVars>>

\* an import or buildPoseidon rejects: the promise is rejected, initialized
\* stays false and initPromise stays set
InitFails(i) ==
    /\ initStage[i] \in {"importing", "building"}
    /\ initStage' = [initStage EXCEPT ![i] = "failed"]
    /\ initPromise' = [initPromise EXCEPT ![i] = "rejected"]
    /\ UNCHANGED <<initialized, initStarts, icall, clientVars, pureVars, v5Vars, ptVars, loginVars>>

\* a caller awaiting the promise goes on once it is settled
InitResume(i, c) ==
    /\ icall[i][c] = "waiting"
    /\ initPromise[i] \in {"fulfilled", "rejected"}
    /\ icall' = [icall EXCEPT ![i][c] = IF initPromise[i] = "fulfilled" THEN "resumed"
                                        ELSE "failed"]
    /\ UNCHANGED <<initPromise, initialized, initStage, initStarts, clientVars, pureVars, v5Vars, ptVars, loginVars>>

InitNext ==
    \/ \E i \in Instances, c \in Callers : InitCall(i, c)
    \/ \E i \in Instances : InitImported(i)
    \/ \E i \in Instances : InitBuilt(i)
    \/ \E i \in Instances : InitFails(i)
    \/ \E i \in Instances, c \in Callers : InitResume(i, c)

\* the initialization by itself, from construction on, no operation running
InitAlone ==
    /\ scenario = "empty"
    /\ ClientInit
    /\ NotLoaded
    /\ NoCall
    /\ NoRequests
    /\ NoTransfers
    /\ NoLogins

InitSpec == InitAlone /\ [][InitNext]_vars

(* ------------------------ big-endian encodings ------------------------- *)

\* values of one hex digit (16 in the source, scaled); a byte is two digits
HexBase == 2
\* bytes of an encoded integer (32 in the source, scaled)
EncLen == 4

ByteValues == HexBase * HexBase

RECURSIVE Power(_, _)
Power(b, n) == IF n = 0 THEN 1 ELSE b * Power(b, n - 1)

\* the integers 32 bytes represent: 0 <= v < 2^256
Representable == 0..(Power(ByteValues, EncLen) - 1)

RECURSIVE ToHex(_)
\* value.toString(16): the digits of a non-negative integer, "0" for zero
ToHex(value) ==
    IF value < HexBase THEN <<value>>
    ELSE Append(ToHex(value \div HexBase), value % HexBase)

\* hex.padStart(n, '0'): zeros in front of a string shorter than n
PadStart(hex, n) ==
    IF Len(hex) >= n THEN hex
    ELSE [k \in 1..(n - Len(hex)) |-> 0] \o hex

\* Buffer.from(hex, 'hex'): one byte for each pair of digits, a digit left
\* alone at the end is dropped
BufferFromHex(hex) ==
    [k \in 1..(Len(hex) \div 2) |-> hex[2 * k - 1] * HexBase + hex[2 * k]]

\* buffer.toString('hex'): two digits for each byte
BufferToHex(buffer) ==
    [k \in 1..(2 * Len(buffer)) |->
        IF k % 2 = 1 THEN buffer[(k + 1) \div 2] \div HexBase
        ELSE buffer[k \div 2] % HexBase]

RECURSIVE ParseHex(_)
\* BigInt('0x' + hex)
ParseHex(hex) ==
    IF Len(hex) = 0 THEN 0
    ELSE ParseHex(SubSeq(hex, 1, Len(hex) - 1)) * HexBase + hex[Len(hex)]

\* a bigIntToBuffer that does not pad
bigIntToBuffer_NoPad(value, length) == BufferFromHex(ToHex(value))

\* utils.bigIntToBuffer
bigIntToBuffer(value, length) == BufferFromHex(PadStart(ToHex(value), length * 2))

\* utils.bufferToBigInt
bufferToBigInt(buffer) == ParseHex(BufferToHex(buffer))

RECURSIVE FillBytes(_, _, _)
\* the loop of the inline encoder: bytes[i] = value & 0xFF, value >> 8, from
\* the last byte to the first
FillBytes(bytes, value, i) ==
    IF i < 1 THEN bytes
    ELSE FillBytes([bytes EXCEPT ![i] = value % ByteValues], value \div ByteValues, i - 1)

\* deposit, withdraw: the commitment as the 32 bytes of its account's seed
CommitmentToBytes(commitment) == FillBytes([k \in 1..EncLen |-> 0], commitment, EncLen)

RECURSIVE ShiftIn(_, _, _)
\* the loop of the decoder: value = (value << 8) | byte, over the 32 bytes
ShiftIn(bytes, value, i) ==
    IF i > EncLen THEN value
    ELSE ShiftIn(bytes, value * ByteValues + bytes[i], i + 1)

\* getBalance: the commitment read from the 32 bytes of an account
BytesToCommitment(bytes) == ShiftIn(bytes, 0, 1)

(* ------------------------- field and prover ---------------------------- *)

\* the order of the field the hash works in (about 2^254 in the source, scaled)
FieldModulus == 13

RECURSIVE DecimalOf(_)
\* value.toString() of a non-negative bigint
DecimalOf(value) ==
    IF value < 10 THEN <<value>>
    ELSE Append(DecimalOf(value \div 10), value % 10)

RECURSIVE ParseDecimal(_)
\* BigInt(string) of a decimal string
ParseDecimal(string) ==
    IF Len(string) = 0 THEN 0
    ELSE ParseDecimal(SubSeq(string, 1, Len(string) - 1)) * 10 + string[Len(string)]

\* F.e(a) of the hash library: an integer is taken into the field by reduction
FieldElement(a) == a % FieldModulus

\* this.poseidon([a, b]) called with integers: the library reduces each input
\* and hashes; nothing is tested before
HashAdapter2(a, b) == Poseidon2(FieldElement(a), FieldElement(b))

\* this.poseidon([a, b, c]) called with integers
HashAdapter3(a, b, c) == Poseidon3(FieldElement(a), FieldElement(b), FieldElement(c))

\* computeNullifier with the commitment as the decimal string it is passed as
NullifierOfString(secret, commitment) ==
    computeNullifier(FieldElement(secret), FieldElement(ParseDecimal(commitment)))

\* the withdraw-with-change circuit: conservation of value and the derivation
\* of the old commitment, the old nullifier and the new commitment
CircuitAccepts(circuitInputs) ==
    LET oldAmount == ParseDecimal(circuitInputs.oldAmount)
        withdrawAmount == ParseDecimal(circuitInputs.withdrawAmount)
        newAmount == ParseDecimal(circuitInputs.newAmount)
        oldSecret == ParseDecimal(circuitInputs.oldSecret)
        newSecret == ParseDecimal(circuitInputs.newSecret)
    IN /\ oldAmount = withdrawAmount + newAmount
       /\ circuitInputs.oldCommitment = computeCommitment(oldAmount, oldSecret)
       /\ circuitInputs.oldNullifier = computeNullifier(oldSecret, circuitInputs.oldCommitment)
       /\ circuitInputs.newCommitment = computeCommitment(newAmount, newSecret)

\* groth16.fullProve: the witness calculation throws when an assertion of the
\* circuit fails, otherwise the proof and its public signals are returned
FullProve(circuitInputs) ==
    IF CircuitAccepts(circuitInputs)
    THEN [threw |-> "none",
          value |-> [proof |-> "proof",
                     publicSignals |-> <<circuitInputs.oldCommitment,
                                         circuitInputs.oldNullifier,
                                         circuitInputs.newCommitment,
                                         circuitInputs.withdrawAmount>>]]
    ELSE [threw |-> "ProofGenerationFailed", value |-> None]

\* the circuit inputs generateWithdrawWithChangeProof builds
CircuitInputsOf(inputs) ==
    [oldCommitment |-> inputs.oldCommitment,
     oldNullifier |-> inputs.oldNullifier,
     newCommitment |-> inputs.newCommitment,
     withdrawAmount |-> DecimalOf(inputs.withdrawAmount),
     oldAmount |-> DecimalOf(inputs.oldAmount),
     oldSecret |-> DecimalOf(inputs.oldSecret),
     newAmount |-> DecimalOf(inputs.newAmount),
     newSecret |-> DecimalOf(inputs.newSecret)]

\* a generateWithdrawWithChangeProof that catches the prover's error
generateWithdrawWithChangeProof_CatchAll(inputs) ==
    LET r == FullProve(CircuitInputsOf(inputs))
    IN IF r.threw = "none" THEN r
       ELSE [threw |-> "none", value |-> [proof |-> "none", publicSignals |-> <<>>]]

\* V3ProofGenerator.generateWithdrawWithChangeProof: the error of the prover
\* is not caught
generateWithdrawWithChangeProof(inputs) == FullProve(CircuitInputsOf(inputs))

(* ------------------------ calls of pure functions ---------------------- *)

\* the round trips asked for: every representable integer through either pair
CodecInputs ==
    {[fn |-> f, value |-> v] : f \in {"utils", "inline"}, v \in Representable}

\* encode with bigIntToBuffer, decode with bufferToBigInt
RoundTripUtils ==
    /\ input.fn = "utils"
    /\ output = None
    /\ LET buffer == bigIntToBuffer(input.value, EncLen)
       IN output' = [bytes |-> buffer, value |-> bufferToBigInt(buffer)]
    /\ UNCHANGED <<input, clientVars, initVars, v5Vars, ptVars, loginVars>>

\* encode as deposit does, decode as getBalance does
RoundTripInline ==
    /\ input.fn = "inline"
    /\ output = None
    /\ LET bytes == CommitmentToBytes(input.value)
       IN output' = [bytes |-> bytes, value |-> BytesToCommitment(bytes)]
    /\ UNCHANGED <<input, clientVars, initVars, v5Vars, ptVars, loginVars>>

\* integers at and around the modulus
HashInputs ==
    {0, 1, FieldModulus - 1, FieldModulus, FieldModulus + 1, 2 * FieldModulus + 1}

\* the calls of computeCommitment, computeNullifier and the hash of deriveSecret
HashCalls ==
    {[fn |-> f, inputs |-> <<a, b>>] :
        f \in {"computeCommitment", "computeNullifier"}, a \in HashInputs, b \in HashInputs}
    \cup {[fn |-> "deriveSecret", inputs |-> <<1, n, a>>] : n \in {0, 1}, a \in HashInputs}

\* computeNullifier called twice with one secret and two commitments, each the
\* decimal string of a field element
NullifierCalls ==
    {[fn |-> "nullifiers", secret |-> s, commitmentA |-> DecimalOf(a),
      commitmentB |-> DecimalOf(b)] :
        s \in {1, FieldModulus - 1}, a \in 0..(FieldModulus - 1), b \in 0..(FieldModulus - 1)}

\* the inputs of a withdraw-with-change proof: the old commitment is one of
\* oldAmount under secret 1, the new one of newAmount under secret 2 or, when
\* `honest` is false, of another amount
ProofInputsOf(oldAmount, withdrawAmount, newAmount, honest) ==
    LET oldCommitment == computeCommitment(oldAmount, 1)
    IN [fn |-> "generateWithdrawWithChangeProof",
        oldCommitment |-> oldCommitment,
        oldNullifier |-> computeNullifier(1, oldCommitment),
        newCommitment |-> computeCommitment(IF honest THEN newAmount ELSE newAmount + 1, 2),
        withdrawAmount |-> withdrawAmount, oldAmount |-> oldAmount, oldSecret |-> 1,
        newAmount |-> newAmount, newSecret |-> 2]

ProofCalls ==
    {ProofInputsOf(o, w, n, h) :
        o \in {10, 100}, w \in {10, 50}, n \in {0, 50, 90}, h \in BOOLEAN}

\* V3ProofGenerator.computeCommitment
CallComputeCommitment ==
    /\ input.fn = "computeCommitment"
    /\ output = None
    /\ output' = [threw |-> "none", value |-> HashAdapter2(input.inputs[1], input.inputs[2])]
    /\ UNCHANGED <<input, clientVars, initVars, v5Vars, ptVars, loginVars>>

\* V3ProofGenerator.computeNullifier
CallComputeNullifier ==
    /\ input.fn = "computeNullifier"
    /\ output = None
    /\ output' = [threw |-> "none", value |-> HashAdapter2(input.inputs[1], input.inputs[2])]
    /\ UNCHANGED <<input, clientVars, initVars, v5Vars, ptVars, loginVars>>

\* the hash of V3SecretManager.deriveSecret
CallDeriveSecret ==
    /\ input.fn = "deriveSecret"
    /\ output = None
    /\ output' = [threw |-> "none",
                  value |-> HashAdapter3(input.inputs[1], input.inputs[2], input.inputs[3])]
    /\ UNCHANGED <<input, clientVars, initVars, v5Vars, ptVars, loginVars>>

\* computeNullifier for commitmentA, then for commitmentB
CallNullifiers ==
    /\ input.fn = "nullifiers"
    /\ output = None
    /\ output' = <<NullifierOfString(input.secret, input.commitmentA),
                   NullifierOfString(input.secret, input.commitmentB)>>
    /\ UNCHANGED <<input, clientVars, initVars, v5Vars, ptVars, loginVars>>

\* V3ProofGenerator.generateWithdrawWithChangeProof
CallGenerateProof ==
    /\ input.fn = "generateWithdrawWithChangeProof"
    /\ output = None
    /\ output' = generateWithdrawWithChangeProof(input)
    /\ UNCHANGED <<input, clientVars, initVars, v5Vars, ptVars, loginVars>>

\* the bytes of a signature after the prefix that makes the key: two choices
SignatureTails == {<<0, 0>>, <<ByteValues - 1, 1>>}

\* the signatures deriveMasterKey is called with: every prefix of KeyBytes
\* bytes, each with two different tails
MasterKeySignatures ==
    {prefix \o tail : prefix \in [1..KeyBytes -> 0..(ByteValues - 1)], tail \in SignatureTails}

MasterKeyCalls == {[fn |-> "deriveMasterKey", signature |-> s] : s \in MasterKeySignatures}

\* signature.slice(0, 31)
Slice(bytes, n) == SubSeq(bytes, 1, Min2(n, Len(bytes)))

\* a master key made of the whole signature
deriveMasterKey_WholeSignature(signature) == ParseHex(BufferToHex(signature))

\* V3SecretManager.deriveMasterKey once the signature is known:
\* BigInt('0x' + Buffer.from(signature.slice(0, 31)).toString('hex'))
deriveMasterKey(signature) == ParseHex(BufferToHex(Slice(signature, KeyBytes)))

\* V3SecretManager.deriveMasterKey
CallDeriveMasterKey ==
    /\ input.fn = "deriveMasterKey"
    /\ output = None
    /\ output' = [masterKey |-> deriveMasterKey(input.signature)]
    /\ UNCHANGED <<input, clientVars, initVars, v5Vars, ptVars, loginVars>>

PureInputs == CodecInputs \cup HashCalls \cup NullifierCalls \cup ProofCalls \cup MasterKeyCalls

\* one call of one pure function, its arguments drawn from the sets above
PureInit ==
    /\ scenario = "empty"
    /\ ClientInit
    /\ Loaded
    /\ NoRequests
    /\ NoTransfers
    /\ NoLogins
    /\ input \in PureInputs
    /\ output = None

PureNext ==
    \/ RoundTripUtils
    \/ RoundTripInline
    \/ CallComputeCommitment
    \/ CallComputeNullifier
    \/ CallDeriveSecret
    \/ CallNullifiers
    \/ CallGenerateProof
    \/ CallDeriveMasterKey

PureSpec == PureInit /\ [][PureNext]_vars

(* -------------------- DunV5Client.createPaymentRequest ------------------ *)

\* a createPaymentRequest call ends
V5Return(l, result) == [pc |-> "done", loc |-> [l EXCEPT !.result = result]]

V5Step(c, r) ==
    /\ prPc' = [prPc EXCEPT ![c] = r.pc]
    /\ prLoc' = [prLoc EXCEPT ![c] = r.loc]

V5AddressOf(l) == <<l.amount, l.timestamp>>

\* a test that stops at expired requests as well
V5MayClose_PaidOrExpired(status) == status \notin {"Paid", "Expired"}

\* the test of the fetched request that decides whether it is closed: the
\* status paid alone stops the call
V5MayClose(status) == status # "Paid"

\* a validation that lets every amount through
V5ValidateAmount_AcceptAll(amount) == TRUE

\* COMMON_AMOUNTS.includes(params.amount): the V5 vocabulary is the same list
\* of amounts
V5ValidateAmount(amount) == InVocabulary(amount)

\* createPaymentRequest up to getAccountInfo: the wallet's public key is
\* tested, then the amount is validated, the timestamp is read from the clock
\* and the address derived
V5Start(c) ==
    /\ prPc[c] \in {"idle", "done"}
    /\ prOps < MaxV5Ops
    /\ prOps' = prOps + 1
    /\ \E amount \in V5Amounts, walletConnected \in BOOLEAN :
          LET l == [V5IdleLoc EXCEPT !.amount = amount, !.timestamp = now,
                                     !.connected = walletConnected]
          IN V5Step(c, IF ~walletConnected THEN V5Return(l, "WalletNotConnected")
                       ELSE IF ~V5ValidateAmount(amount) THEN V5Return(l, "InvalidAmount")
                       ELSE [pc |-> "check", loc |-> l])
    /\ UNCHANGED <<paymentRequests, now, prLog, prFaults, clientVars, initVars, pureVars, ptVars, loginVars>>

\* getAccountInfo(paymentRequest) answers: an account is there or not
V5GetAccountInfo(c) ==
    /\ prPc[c] = "check"
    /\ V5Step(c, [pc |-> IF paymentRequests[V5AddressOf(prLoc[c])] # "none"
                         THEN "fetch" ELSE "create",
                  loc |-> prLoc[c]])
    /\ UNCHANGED <<paymentRequests, now, prLog, prOps, prFaults, clientVars, initVars, pureVars, ptVars, loginVars>>

\* getAccountInfo throws: the outer catch goes on with the creation
V5GetAccountInfoFails(c) ==
    /\ prPc[c] = "check"
    /\ prFaults < MaxV5Faults
    /\ prFaults' = prFaults + 1
    /\ V5Step(c, [pc |-> "create", loc |-> prLoc[c]])
    /\ UNCHANGED <<paymentRequests, now, prLog, prOps, clientVars, initVars, pureVars, ptVars, loginVars>>

\* paymentRequest.fetch answers: a paid request stops the call, any other is
\* to be closed; a fetch that finds no account throws, and every error of the
\* inner block becomes "already exists and cannot be closed"
V5Fetch(c) ==
    /\ prPc[c] = "fetch"
    /\ LET status == paymentRequests[V5AddressOf(prLoc[c])]
           l == [prLoc[c] EXCEPT !.seen = status]
       IN V5Step(c, IF status = "none" \/ ~V5MayClose(status)
                    THEN V5Return(l, "AlreadyExists")
                    ELSE [pc |-> "cancel", loc |-> l])
    /\ UNCHANGED <<paymentRequests, now, prLog, prOps, prFaults, clientVars, initVars, pureVars, ptVars, loginVars>>

\* the ledger program takes a cancel of a pending or cancelled request only
V5LedgerCancels(status) == status \in {"Pending", "Cancelled"}

\* program.methods.cancelPaymentRequest().rpc(): the instruction is submitted;
\* accepted, the account is closed or left as cancelled, and the call goes on
\* to the creation; refused, the call fails
V5Cancel(c) ==
    /\ prPc[c] = "cancel"
    /\ LET a == V5AddressOf(prLoc[c])
           status == paymentRequests[a]
       IN /\ prLog' = Append(prLog, [kind |-> "cancel", address |-> a,
                                     seen |-> prLoc[c].seen, status |-> status])
          /\ IF V5LedgerCancels(status)
             THEN /\ \E after \in {"none", "Cancelled"} :
                        paymentRequests' = [paymentRequests EXCEPT ![a] = after]
                  /\ V5Step(c, [pc |-> "create", loc |-> prLoc[c]])
             ELSE /\ paymentRequests' = paymentRequests
                  /\ V5Step(c, V5Return(prLoc[c], "AlreadyExists"))
    /\ UNCHANGED <<now, prOps, prFaults, clientVars, initVars, pureVars, ptVars, loginVars>>

\* program.methods.createPaymentRequest(...).rpc(): the account is created
\* pending, or the ledger refuses an address in use
V5Create(c) ==
    /\ prPc[c] = "create"
    /\ LET a == V5AddressOf(prLoc[c])
           status == paymentRequests[a]
       IN /\ prLog' = Append(prLog, [kind |-> "create", address |-> a,
                                     seen |-> prLoc[c].seen, status |-> status])
          /\ IF status = "none"
             THEN /\ paymentRequests' = [paymentRequests EXCEPT ![a] = "Pending"]
                  /\ V5Step(c, V5Return(prLoc[c], "ok"))
             ELSE /\ paymentRequests' = paymentRequests
                  /\ V5Step(c, V5Return(prLoc[c], "TransactionFailed"))
    /\ UNCHANGED <<now, prOps, prFaults, clientVars, initVars, pureVars, ptVars, loginVars>>

\* the ledger's own transitions of a pending request: paid by a payer
V5Paid(a) ==
    /\ paymentRequests[a] = "Pending"
    /\ paymentRequests' = [paymentRequests EXCEPT ![a] = "Paid"]
    /\ UNCHANGED <<now, prPc, prLoc, prLog, prOps, prFaults, clientVars, initVars, pureVars, ptVars, loginVars>>

\* a pending request expires
V5Expired(a) ==
    /\ paymentRequests[a] = "Pending"
    /\ paymentRequests' = [paymentRequests EXCEPT ![a] = "Expired"]
    /\ UNCHANGED <<now, prPc, prLoc, prLog, prOps, prFaults, clientVars, initVars, pureVars, ptVars, loginVars>>

\* a second passes
V5Tick ==
    /\ now < MaxClock
    /\ now' = now + 1
    /\ UNCHANGED <<paymentRequests, prPc, prLoc, prLog, prOps, prFaults, clientVars, initVars, pureVars, ptVars, loginVars>>

V5Init ==
    /\ scenario = "empty"
    /\ ClientInit
    /\ Loaded
    /\ NoCall
    /\ NoRequests
    /\ NoTransfers
    /\ NoLogins

V5Next ==
    \/ \E c \in V5Calls : V5Start(c)
    \/ \E c \in V5Calls : V5GetAccountInfo(c)
    \/ \E c \in V5Calls : V5GetAccountInfoFails(c)
    \/ \E c \in V5Calls : V5Fetch(c)
    \/ \E c \in V5Calls : V5Cancel(c)
    \/ \E c \in V5Calls : V5Create(c)
    \/ \E a \in V5Addresses : V5Paid(a)
    \/ \E a \in V5Addresses : V5Expired(a)
    \/ V5Tick

V5Spec == V5Init /\ [][V5Next]_vars

(* ---------------------- DunV5Client.privacyTransfer --------------------- *)

\* a privacyTransfer call ends
PtReturn(l, result) == [pc |-> "done", loc |-> [l EXCEPT !.result = result]]

PtStep(c, r) ==
    /\ ptPc' = [ptPc EXCEPT ![c] = r.pc]
    /\ ptLoc' = [ptLoc EXCEPT ![c] = r.loc]

\* the commitment account of the payer's commitment at the call's slot: the
\* commitment is the hash of the request's amount and of the secret derived
\* from the signature, the slot and the amount
PtAccountOf(l) == <<PtAmountOf(l.request), l.nonce>>

\* a loop that probes one slot more
PtLoop_OffByOne(l) ==
    IF l.nonce <= MAX_NONCE_ATTEMPTS
    THEN [pc |-> "probe", loc |-> l]
    ELSE PtReturn(l, "NoUnusedNonce")

\* while (commitmentExists && nonce < MAX_NONCE_ATTEMPTS): the secret and the
\* commitment of the slot are computed and getAccountInfo is awaited; after the
\* loop, if (commitmentExists) throw
PtLoop(l) ==
    IF l.nonce < MAX_NONCE_ATTEMPTS
    THEN [pc |-> "probe", loc |-> l]
    ELSE PtReturn(l, "NoUnusedNonce")

\* privacyTransfer up to the first probe: the wallet's public key is tested,
\* the payment request fetched, nonce = 0
PtStart(c) ==
    /\ ptPc[c] \in {"idle", "done"}
    /\ ptOps < MaxPtOps
    /\ ptOps' = ptOps + 1
    /\ \E request \in PtRequests, walletConnected \in BOOLEAN :
          LET l == [PtIdleLoc EXCEPT !.request = request, !.connected = walletConnected]
          IN PtStep(c, IF ~walletConnected THEN PtReturn(l, "WalletNotConnected")
                       ELSE PtLoop(l))
    /\ UNCHANGED <<commitmentAccounts, payeeTokenAccount, requestStatus, ptLog, ptFaults,
                   clientVars, initVars, pureVars, v5Vars, loginVars>>

\* getAccountInfo(commitmentAccount) answers: an absent account ends the loop,
\* an existing one moves it to the next slot
PtProbe(c) ==
    /\ ptPc[c] = "probe"
    /\ LET l == [ptLoc[c] EXCEPT !.probed = Append(@, ptLoc[c].nonce)]
       IN PtStep(c, IF PtAccountOf(l) \notin commitmentAccounts
                    THEN [pc |-> "ata", loc |-> l]
                    ELSE PtLoop([l EXCEPT !.nonce = l.nonce + 1]))
    /\ UNCHANGED <<commitmentAccounts, payeeTokenAccount, requestStatus, ptLog, ptOps,
                   ptFaults, clientVars, initVars, pureVars, v5Vars, loginVars>>

\* deriveSecret or getAccountInfo throws inside the loop: the error leaves
\* privacyTransfer
PtProbeFails(c) ==
    /\ ptPc[c] = "probe"
    /\ ptFaults < MaxPtFaults
    /\ ptFaults' = ptFaults + 1
    /\ PtStep(c, PtReturn(ptLoc[c], "Failed"))
    /\ UNCHANGED <<commitmentAccounts, payeeTokenAccount, requestStatus, ptLog, ptOps,
                   clientVars, initVars, pureVars, v5Vars, loginVars>>

\* getAccountInfo(payeeTokenAccount) answers: needsPayeeAccount
PtAta(c) ==
    /\ ptPc[c] = "ata"
    /\ PtStep(c, [pc |-> IF payeeTokenAccount THEN "transfer" ELSE "create",
                  loc |-> [ptLoc[c] EXCEPT !.needsPayeeAccount = ~payeeTokenAccount]])
    /\ UNCHANGED <<commitmentAccounts, payeeTokenAccount, requestStatus, ptLog, ptOps,
                   ptFaults, clientVars, initVars, pureVars, v5Vars, loginVars>>

\* the transaction that creates the payee's token account is sent and
\* confirmed; it fails when the account exists by now
PtCreate(c) ==
    /\ ptPc[c] = "create"
    /\ ptLog' = Append(ptLog, [kind |-> "createAta", call |-> c, account |-> None])
    /\ LET l == [ptLoc[c] EXCEPT !.created = TRUE]
       IN IF payeeTokenAccount
          THEN /\ PtStep(c, PtReturn(l, "TransactionFailed"))
               /\ UNCHANGED payeeTokenAccount
          ELSE /\ PtStep(c, [pc |-> "transfer", loc |-> l])
               /\ payeeTokenAccount' = TRUE
    /\ UNCHANGED <<commitmentAccounts, requestStatus, ptOps, ptFaults,
                   clientVars, initVars, pureVars, v5Vars, loginVars>>

\* the ledger program creates the commitment account and marks a pending
\* request paid; it fails when the account exists or the request is not
\* pending
PtLedgerAccepts(account, request) ==
    /\ account \notin commitmentAccounts
    /\ requestStatus[request] = "Pending"

\* program.methods.privacyTransfer(commitmentBytes).rpc()
PtTransfer(c) ==
    /\ ptPc[c] = "transfer"
    /\ LET l == [ptLoc[c] EXCEPT !.submitted = TRUE]
           account == PtAccountOf(l)
       IN /\ ptLog' = Append(ptLog, [kind |-> "privacyTransfer", call |-> c,
                                     account |-> account])
          /\ IF PtLedgerAccepts(account, l.request)
             THEN /\ commitmentAccounts' = commitmentAccounts \cup {account}
                  /\ requestStatus' = [requestStatus EXCEPT ![l.request] = "Paid"]
                  /\ PtStep(c, PtReturn(l, "ok"))
             ELSE /\ UNCHANGED <<commitmentAccounts, requestStatus>>
                  /\ PtStep(c, PtReturn(l, "TransactionFailed"))
    /\ UNCHANGED <<payeeTokenAccount, ptOps, ptFaults, clientVars, initVars, pureVars, v5Vars, loginVars>>

\* another client of the same wallet (a V3 deposit, a transfer from another
\* tab) creates one of the wallet's commitment accounts
PtOtherClient(account) ==
    /\ ptFaults < MaxPtFaults
    /\ ptFaults' = ptFaults + 1
    /\ account \notin commitmentAccounts
    /\ commitmentAccounts' = commitmentAccounts \cup {account}
    /\ UNCHANGED <<payeeTokenAccount, requestStatus, ptPc, ptLoc, ptLog, ptOps,
                   clientVars, initVars, pureVars, v5Vars, loginVars>>

\* the commitment accounts of the wallet the ledger may hold at the start:
\* what earlier transfers left, the first slots of each amount, up to all of
\* those the loop probes
PtInitialAccounts ==
    {{<<a, n>> \in PtAmounts \X (0..(MAX_NONCE_ATTEMPTS - 1)) : n < used[a]} :
        used \in [PtAmounts -> 0..MAX_NONCE_ATTEMPTS]}

TransferInit ==
    /\ scenario = "empty"
    /\ ClientInit
    /\ Loaded
    /\ NoCall
    /\ NoRequests
    /\ commitmentAccounts \in PtInitialAccounts
    /\ PtIdle
    /\ NoLogins

TransferNext ==
    \/ \E c \in PtCalls : PtStart(c)
    \/ \E c \in PtCalls : PtProbe(c)
    \/ \E c \in PtCalls : PtProbeFails(c)
    \/ \E c \in PtCalls : PtAta(c)
    \/ \E c \in PtCalls : PtCreate(c)
    \/ \E c \in PtCalls : PtTransfer(c)
    \/ \E account \in PtAmounts \X (0..MAX_NONCE_ATTEMPTS) : PtOtherClient(account)

TransferSpec == TransferInit /\ [][TransferNext]_vars

(* --------------------------- wallet login ------------------------------ *)

\* a message that is the empty string
EmptyMessage == 0

\* isValidSolanaAddress
isValidSolanaAddress(address) == address \in LoginWallets

\* nacl.sign.detached.verify: a signature verifies for the wallet and the
\* message it was made for and for nothing else
verifyWalletSignature(walletAddress, signature, message) ==
    signature = <<walletAddress, message>>

\* walletAuthSchema.parse
WalletAuthValid(walletAddress, signature, message) ==
    /\ isValidSolanaAddress(walletAddress)
    /\ message # EmptyMessage

\* a login that uses up the stored nonce
NonceAfterLogin_Consumed(stored, status) ==
    IF status = "success" THEN EmptyMessage ELSE stored

\* the nonce of the user's row after loginWithWallet: the function does not
\* write it
NonceAfterLogin(stored, status) == stored

\* what loginWithWallet returns
LoginStatus(walletAddress, signature, message, signInThrows) ==
    IF ~WalletAuthValid(walletAddress, signature, message) THEN "failed"
    ELSE IF userNonce[walletAddress] = NoUser THEN "failed"
    ELSE IF userNonce[walletAddress] # message THEN "invalid_signature"
    ELSE IF ~verifyWalletSignature(walletAddress, signature, message)
         THEN "invalid_signature"
    ELSE IF signInThrows THEN "failed"
    ELSE "success"

\* requestWalletNonce for a valid address: a new nonce, stored when the wallet
\* has a user
RequestWalletNonce(walletAddress) ==
    /\ isValidSolanaAddress(walletAddress)
    /\ nonceCount < MaxNonces
    /\ nonceCount' = nonceCount + 1
    /\ userNonce' = IF userNonce[walletAddress] # NoUser
                    THEN [userNonce EXCEPT ![walletAddress] = nonceCount + 1]
                    ELSE userNonce
    /\ UNCHANGED <<signatures, loginLog, loginFaults,
                   clientVars, initVars, pureVars, v5Vars, ptVars>>

\* the wallet signs a nonce the server handed out
WalletSigns(wallet, message) ==
    /\ message \in 1..nonceCount
    /\ <<wallet, message>> \notin signatures
    /\ signatures' = signatures \cup {<<wallet, message>>}
    /\ UNCHANGED <<userNonce, nonceCount, loginLog, loginFaults,
                   clientVars, initVars, pureVars, v5Vars, ptVars>>

\* registerWithWallet succeeds: there is no user for the wallet and the
\* signature verifies; the user is created with the message as its nonce
RegisterWithWallet(walletAddress, signature, message) ==
    /\ signature \in signatures
    /\ WalletAuthValid(walletAddress, signature, message)
    /\ userNonce[walletAddress] = NoUser
    /\ verifyWalletSignature(walletAddress, signature, message)
    /\ userNonce' = [userNonce EXCEPT ![walletAddress] = message]
    /\ UNCHANGED <<nonceCount, signatures, loginLog, loginFaults,
                   clientVars, initVars, pureVars, v5Vars, ptVars>>

\* loginWithWallet with a signature that exists, its own or another one
LoginWithWallet(walletAddress, signature, message, signInThrows) ==
    /\ signature \in signatures
    /\ Len(loginLog) < MaxLogins
    /\ signInThrows => loginFaults < MaxLoginFaults
    /\ LET status == LoginStatus(walletAddress, signature, message, signInThrows)
           stored == IF isValidSolanaAddress(walletAddress)
                     THEN userNonce[walletAddress] ELSE NoUser
       IN /\ loginLog' = Append(loginLog,
                [walletAddress |-> walletAddress, signature |-> signature,
                 message |-> message, stored |-> stored, status |-> status])
          /\ userNonce' = IF isValidSolanaAddress(walletAddress)
                          THEN [userNonce EXCEPT ![walletAddress] =
                                    NonceAfterLogin(stored, status)]
                          ELSE userNonce
          /\ loginFaults' = loginFaults +
                (IF signInThrows /\ status = "failed" /\ stored = message
                    /\ verifyWalletSignature(walletAddress, signature, message)
                 THEN 1 ELSE 0)
    /\ UNCHANGED <<nonceCount, signatures,
                   clientVars, initVars, pureVars, v5Vars, ptVars>>

\* every signature a wallet can make of a nonce
LoginSignatures == LoginWallets \X (1..MaxNonces)

LoginInit ==
    /\ scenario = "empty"
    /\ ClientInit
    /\ Loaded
    /\ NoCall
    /\ NoRequests
    /\ PtIdle
    /\ commitmentAccounts = {}
    /\ NoLogins

LoginNext ==
    \/ \E a \in LoginAddresses : RequestWalletNonce(a)
    \/ \E w \in LoginWallets, m \in 1..MaxNonces : WalletSigns(w, m)
    \/ \E a \in LoginAddresses, s \in LoginSignatures, m \in EmptyMessage..MaxNonces :
          RegisterWithWallet(a, s, m)
    \/ \E a \in LoginAddresses, s \in LoginSignatures, m \in EmptyMessage..MaxNonces :
          \E signInThrows \in BOOLEAN : LoginWithWallet(a, s, m, signInThrows)

LoginSpec == LoginInit /\ [][LoginNext]_vars

(* ------------------------------- claims ------------------------------- *)

\* the view of the records a getBalance returned: amounts of the unspent and
\* of the spent records, in order
AmountsWhere(records, spent) ==
    LET idx == SelectSeq([k \in 1..Len(records) |-> k],
                         LAMBDA k : records[k].isSpent = spent)
    IN [j \in 1..Len(idx) |-> records[idx[j]].amount]

\* process 1 ran withdraw(0.1) to its end and then getBalance to its end, with
\* no other call and no environment event, on the ledger holding one commitment
\* of 1 SOL of the wallet
WithdrawThenBalance ==
    /\ scenario = "one"
    /\ env = 0
    /\ pc[2] = "idle"
    /\ pc[1] = "done"
    /\ loc[1].op = "balance"
    /\ loc[1].result = "ok"
    /\ cachedSignature = WalletSig(1)
    /\ \E i \in 1..Len(txlog) : txlog[i].kind = "withdrawWithChange"

\* C1: from one unspent commitment of 1 SOL, a successful withdraw of 0.1 SOL
\* followed by getBalance yields exactly one spent record (1) and one new
\* unspent record (0.9), with totalBalance = 0.9
C1_WithdrawWithChangeThenScan ==
    WithdrawThenBalance =>
        /\ AmountsWhere(loc[1].balance.commitments, TRUE) = <<100>>
        /\ AmountsWhere(loc[1].balance.commitments, FALSE) = <<90>>
        /\ loc[1].balance.totalBalance = 90

\* a deposit of a vocabulary amount has left the collision loop
Building(p) ==
    /\ loc[p].op = "deposit"
    /\ pc[p] \in {"dep_sim", "dep_send"}
    /\ InVocabulary(loc[p].amount)

\* C2: two deposits in flight in one session never select the same slot index:
\* no two of them build a ledger operation for the same commitment (stated for
\* the runs with no environment event)
C2_DepositSlotsSerialized ==
    \A p, q \in Procs :
        (p # q /\ Building(p) /\ Building(q) /\ loc[p].w = loc[q].w /\ env = 0) =>
            /\ loc[p].nonce # loc[q].nonce
            /\ loc[p].commitment # loc[q].commitment

\* C3: after the wallet rejected the signature request, getWalletSignature
\* fails on every later call without invoking signMessage, until clearCache:
\* the manager stays rejected, with no signature and no new prompt (stated for
\* the runs with no environment event before)
C3_RejectionIsTerminal ==
    [][(signatureRejected /\ cachedSignature = None /\ env = 0 /\ ~ClearCache) =>
          (signatureRejected' /\ cachedSignature' = None /\ prompts' = prompts)]_vars

\* C4: once a signature is obtained every later call uses that cached signature
\* and signMessage is not invoked again until clearCache; exactly one signature
\* is requested per session
C4_OneSignaturePerSession ==
    /\ [](signed <= 1)
    /\ [][(cachedSignature # None /\ ~ClearCache) =>
             (cachedSignature' = cachedSignature /\ prompts' = prompts)]_vars

\* C5: the master key used in an operation for a wallet is derived from a
\* signature of that same wallet: the cached signature is never used across
\* wallets
C5_SignatureOfOwnWallet ==
    \A p \in Procs :
        loc[p].sigUsed # None => loc[p].sigUsed = WalletSig(loc[p].w)

\* C6: every transaction submitted to the ledger, auxiliary ones included, was
\* simulated successfully before
C6_SimulateBeforeSubmit ==
    \A i \in 1..Len(txlog) : txlog[i].simulated

\* C7: deposit and withdraw reject an amount outside the vocabulary with
\* InvalidAmount before any signature request or ledger RPC call
C7_InvalidAmountRejectedFirst ==
    \A p \in Procs :
        (loc[p].op \in {"deposit", "withdraw"} /\ ~InVocabulary(loc[p].amount)) =>
            /\ ~loc[p].rpc
            /\ ~loc[p].asked
            /\ pc[p] = "done" => loc[p].result = "InvalidAmount"

\* C8: in a withdraw with change the nullifier is revealed and the change
\* commitment is created by one ledger transaction: in no state is the old
\* commitment spent by such a withdrawal and its change commitment missing
C8_ChangeCreatedWithNullifier ==
    /\ \A i \in 1..Len(txlog) :
          txlog[i].change > 0 =>
              /\ txlog[i].nullifier \in nullifiers
              /\ txlog[i].commitment # None
              /\ CommitmentExists(txlog[i].commitment)
    /\ \A p \in Procs :
          (loc[p].op = "withdraw" /\ loc[p].change > 0 /\ loc[p].result = "ok") =>
              /\ loc[p].nullifier \in nullifiers
              /\ CommitmentExists(loc[p].newCommitment)

\* a withdrawal with change has been executed
C8_Witness ==
    \E p \in Procs :
        /\ loc[p].op = "withdraw" /\ loc[p].change > 0 /\ loc[p].result = "ok"
        /\ \E i \in 1..Len(txlog) : txlog[i].commitment = loc[p].newCommitment

\* C9: a nullifier is revealed at most once: no two executed withdrawals reveal
\* the same nullifier, and withdraw never selects a record the scan reported
\* as spent
C9_NullifierRevealedOnce ==
    /\ \A i, j \in 1..Len(txlog) :
          (i # j /\ txlog[i].nullifier # None) => txlog[i].nullifier # txlog[j].nullifier
    /\ \A p \in Procs : ~loc[p].selected.isSpent

\* two interleaved withdrawals chose the same commitment; one was executed, the
\* other refused
C9_Witness ==
    \E p, q \in Procs :
        /\ p # q
        /\ loc[p].op = "withdraw" /\ loc[q].op = "withdraw"
        /\ loc[p].nullifier # None /\ loc[p].nullifier = loc[q].nullifier
        /\ loc[p].result = "ok"
        /\ loc[q].result \in {"SimulationFailed", "TransactionFailed"}

\* a deposit is at the collision check of its current slot
InLoop(p) == loc[p].op = "deposit" /\ pc[p] = "dep_check"

\* C10: in deposit's collision loop a slot whose commitment exists is left for
\* the next one with the secret and commitment recomputed, at most maxAttempts
\* times; then deposit fails with SlotExhausted with nothing simulated or
\* submitted; the commitment used was observed absent
C10_CollisionLoop ==
    /\ [](\A p \in Procs :
            /\ loc[p].attempts <= maxAttempts
            /\ (loc[p].op = "deposit" /\ pc[p] \in {"dep_check", "dep_sim", "dep_send"}) =>
                 loc[p].commitment =
                     computeCommitment(loc[p].amount,
                         DeriveSecretOf(loc[p].sigUsed, loc[p].nonce, loc[p].amount))
            /\ loc[p].result = "SlotExhausted" =>
                 /\ loc[p].attempts = maxAttempts
                 /\ ~loc[p].simulated
                 /\ ~loc[p].sent
            /\ (loc[p].op = "deposit" /\ (pc[p] \in {"dep_sim", "dep_send"} \/ loc[p].result = "ok")) =>
                 loc[p].attempts < maxAttempts)
    /\ [][\A p \in Procs :
            /\ (InLoop(p) /\ CommitmentExists(loc[p].commitment) /\ loc'[p] # loc[p]) =>
                 /\ loc'[p].nonce = loc[p].nonce + 1
                 /\ pc'[p] \in {"dep_check", "sign_wait", "done"}
                 /\ pc'[p] = "dep_check" => loc'[p].attempts = loc[p].attempts + 1
            /\ (pc'[p] = "dep_sim" /\ pc[p] # "dep_sim") =>
                 /\ InLoop(p)
                 /\ ~CommitmentExists(loc[p].commitment)
                 /\ loc'[p].commitment = loc[p].commitment]_vars

\* a deposit ran out of attempts
C10_Witness ==
    \E p \in Procs : loc[p].op = "deposit" /\ loc[p].result = "SlotExhausted"

\* the value a getBalance called now returns, with the cached signature and
\* every RPC call answered
BalanceNow ==
    BalanceOf(ScanFrom(cachedSignature, [k \in 1..Len(commits) |-> commits[k].c], 1, 0),
              commits, nullifiers, {}, {})

\* the amount a commitment commits to (the ideal hash keeps its arguments)
AmountIn(commitment) == commitment[1]

\* one call after the other, never two in flight, made two deposits of the
\* same vocabulary amount on the empty ledger, with no environment event
TwoSequentialDeposits ==
    /\ scenario = "empty"
    /\ env = 0
    /\ pc[2] = "idle"
    /\ pc[1] = "done"
    /\ loc[1].op = "deposit"
    /\ loc[1].result = "ok"
    /\ InVocabulary(loc[1].amount)
    /\ Len(txlog) = 2
    /\ \A i \in 1..2 : txlog[i].kind = "deposit" /\ AmountIn(txlog[i].commitment) = loc[1].amount

Qualifies(balance, k, amount) ==
    /\ ~balance.commitments[k].isSpent
    /\ balance.commitments[k].amount >= amount

\* the two messages withdraw throws when no unspent commitment matches
InsufficientBalance == {"InsufficientBalance", "NoCommitments"}

\* C12: withdraw selects the first record, in the order getBalance returned,
\* that is unspent and holds at least the requested amount; when there is none
\* it fails with InsufficientBalance and nothing is simulated or submitted
C12_SelectFirstSufficient ==
    \A p \in Procs :
        (loc[p].op = "withdraw" /\ loc[p].scanned) =>
            LET b == loc[p].balance
                Q == {k \in 1..Len(b.commitments) : Qualifies(b, k, loc[p].amount)}
            IN /\ Q # {} =>
                    /\ \E k \in Q :
                          /\ loc[p].selected = b.commitments[k]
                          /\ \A j \in Q : k <= j
                    /\ loc[p].change = loc[p].selected.amount - loc[p].amount
                    /\ loc[p].result \notin InsufficientBalance
               /\ Q = {} =>
                    /\ pc[p] = "done"
                    /\ loc[p].result \in InsufficientBalance
                    /\ loc[p].selected = NoRecord
                    /\ loc[p].nullifier = None
                    /\ ~loc[p].simulated
                    /\ ~loc[p].sent

\* one withdraw found two records that qualify and selected one, another
\* found none among the records of its balance
C12_Witness ==
    \E p, q \in Procs :
        /\ loc[p].op = "withdraw" /\ loc[p].scanned
        /\ Cardinality({k \in 1..Len(loc[p].balance.commitments) :
                           Qualifies(loc[p].balance, k, loc[p].amount)}) >= 2
        /\ loc[p].selected # NoRecord
        /\ loc[q].op = "withdraw" /\ loc[q].scanned
        /\ Len(loc[q].balance.commitments) >= 2
        /\ loc[q].result = "InsufficientBalance"

\* commitment c is one the signature derives: some vocabulary amount and some
\* slot index below the scan's bound give it
Derivable(signature, c) ==
    \E ai \in 1..NumAmounts : \E n \in 0..(ScanMaxNonce - 1) :
        c = computeCommitment(COMMON_AMOUNTS[ai],
                              DeriveSecretOf(signature, n, COMMON_AMOUNTS[ai]))

\* the records of `owned` that report ledger element c
ReportsOf(owned, c) == {k \in 1..Len(owned) : owned[k].commitment = c}

\* C13: the scan reports a ledger commitment as owned if and only if a
\* vocabulary amount and a slot index below the bound derive it from the master
\* key; an owned element is reported once, with that amount and slot index,
\* and the others are left out
C13_ScanReportsExactlyOwned ==
    \A p \in Procs :
        (pc[p] = "gb_check" /\ loc[p].sigUsed # None) =>
            /\ \A i \in 1..Len(loc[p].accounts) :
                  LET c == loc[p].accounts[i]
                  IN Cardinality(ReportsOf(loc[p].owned, c)) =
                        (IF Derivable(loc[p].sigUsed, c) THEN 1 ELSE 0)
            /\ \A k \in 1..Len(loc[p].owned) :
                  LET o == loc[p].owned[k]
                  IN /\ \E i \in 1..Len(loc[p].accounts) : loc[p].accounts[i] = o.commitment
                     /\ InVocabulary(o.amount)
                     /\ o.nonce \in 0..(ScanMaxNonce - 1)
                     /\ o.secret = DeriveSecretOf(loc[p].sigUsed, o.nonce, o.amount)
                     /\ o.commitment = computeCommitment(o.amount, o.secret)

\* the nullifier of a record of a balance, from the signature its scan used
NullifierOf(signature, record) ==
    computeNullifier(DeriveSecretOf(signature, record.nonce, record.amount),
                     record.commitment)

\* getBalance of call p returns in this step
BalanceReturns(p) == pc[p] = "gb_check" /\ loc'[p].scanned

\* C14: in the balance getBalance returns, a record is spent if and only if
\* its nullifier account exists on the ledger, whatever the outcome of the
\* RPC calls; a record whose nullifier account exists is not counted in
\* totalBalance
C14_SpentIffNullifierExists ==
    [][\A p \in Procs :
          BalanceReturns(p) =>
              LET b == loc'[p].balance
                  live == {k \in 1..Len(b.commitments) :
                              NullifierOf(loc[p].sigUsed, b.commitments[k]) \notin nullifiers}
              IN /\ \A k \in 1..Len(b.commitments) :
                       b.commitments[k].isSpent <=> k \notin live
                 /\ b.totalBalance =
                       TotalOf([k \in 1..Len(b.commitments) |->
                                  [isSpent |-> k \notin live,
                                   amount |-> b.commitments[k].amount]])
       ]_vars

\* record a may stand right before record b in a balance: unspent before
\* spent, then newest first, then by address
InOrder(a, b) ==
    LET ta == BlockTimeOf(commits, a.commitment)
        tb == BlockTimeOf(commits, b.commitment)
    IN IF a.isSpent # b.isSpent THEN ~a.isSpent
       ELSE IF ta # tb THEN ta > tb
       ELSE AddressOf(a.commitment) < AddressOf(b.commitment)

\* C15: the records getBalance returns are sorted: unspent before spent, in
\* each group newest creation time first, equal creation times by address
C15_BalanceSorted ==
    \A p \in Procs :
        loc[p].scanned =>
            \A k \in 1..(Len(loc[p].balance.commitments) - 1) :
                InOrder(loc[p].balance.commitments[k], loc[p].balance.commitments[k + 1])

\* the calls p and q were both getBalance, both returned a view, with the same
\* signature, and the ledger is the one the behaviour started from
TwoBalancesOfOneSnapshot(p, q) ==
    /\ p # q
    /\ loc[p].op = "balance" /\ loc[p].result = "ok"
    /\ loc[q].op = "balance" /\ loc[q].result = "ok"
    /\ loc[p].sigUsed # None
    /\ loc[p].sigUsed = loc[q].sigUsed
    /\ ~signatureRejected
    /\ env = 0
    /\ txlog = <<>>

\* C16: getBalance run twice on an unchanged ledger with the same signature
\* gives the same view, the same records in the same order and the same
\* total, whatever the order in which the ledger lists its accounts
C16_ScanIdempotent ==
    \A p, q \in Procs :
        TwoBalancesOfOneSnapshot(p, q) => loc[p].balance = loc[q].balance

\* the sum of the amounts of the records at the positions S
RECURSIVE SumAmounts(_, _)
SumAmounts(records, S) ==
    IF S = {} THEN 0
    ELSE LET k == CHOOSE j \in S : TRUE
         IN records[k].amount + SumAmounts(records, S \ {k})

\* C17: in every view getBalance returns, totalBalance is the sum of the
\* amounts of exactly the records of that view that are not spent
C17_TotalIsSumOfUnspent ==
    \A p \in Procs :
        loc[p].scanned =>
            LET b == loc[p].balance
            IN b.totalBalance =
                 SumAmounts(b.commitments,
                            {k \in 1..Len(b.commitments) : ~b.commitments[k].isSpent})

\* a view with a spent record and an unspent one
C17_Witness ==
    \E p \in Procs :
        /\ loc[p].scanned
        /\ \E k \in 1..Len(loc[p].balance.commitments) : loc[p].balance.commitments[k].isSpent
        /\ \E k \in 1..Len(loc[p].balance.commitments) : ~loc[p].balance.commitments[k].isSpent
        /\ loc[p].balance.totalBalance > 0

\* process 1 ran withdraw(0.5) to its end and then getBalance to its end, with
\* no other call and no environment event, on the ledger holding one
\* commitment of 0.5 SOL of the wallet
ExactWithdrawThenBalance ==
    /\ scenario = "half"
    /\ env = 0
    /\ pc[2] = "idle"
    /\ pc[1] = "done"
    /\ loc[1].op = "balance"
    /\ loc[1].result = "ok"
    /\ \E i \in 1..Len(txlog) : txlog[i].kind = "withdraw"

\* C18: from one unspent commitment of 0.5 SOL, a successful withdraw of 0.5
\* SOL followed by getBalance yields no unspent record, one spent record and
\* totalBalance 0: the nullifier withdraw revealed is the one getBalance
\* looks up for the record
C18_ExactWithdrawThenScan ==
    ExactWithdrawThenBalance =>
        /\ AmountsWhere(loc[1].balance.commitments, FALSE) = <<>>
        /\ AmountsWhere(loc[1].balance.commitments, TRUE) = <<50>>
        /\ loc[1].balance.totalBalance = 0
        /\ \A i \in 1..Len(txlog) :
              txlog[i].kind = "withdraw" =>
                  txlog[i].nullifier =
                      NullifierOf(loc[1].sigUsed, loc[1].balance.commitments[1])

\* the getBalance after the exact withdrawal has returned
C18_Witness ==
    /\ ExactWithdrawThenBalance
    /\ Len(loc[1].balance.commitments) = 1
    /\ Len(txlog) >= 1
    /\ commits = InitialLedger("half")

\* process 1 ran deposit(0.1) to its end and then getBalance to its end, with
\* no other call and no environment event, on the empty ledger
DepositThenBalance ==
    /\ scenario = "empty"
    /\ env = 0
    /\ pc[2] = "idle"
    /\ pc[1] = "done"
    /\ loc[1].op = "balance"
    /\ loc[1].result = "ok"
    /\ Len(txlog) = 1
    /\ txlog[1].kind = "deposit"
    /\ AmountIn(txlog[1].commitment) = 10

\* C19: from an empty owned set a successful deposit of 0.1 SOL uses slot
\* index 0, and a following getBalance returns exactly one record, unspent, of
\* 0.1 SOL, with totalBalance 0.1
C19_DepositThenScan ==
    DepositThenBalance =>
        /\ txlog[1].commitment = CommitmentOf(loc[1].w, 0, 10)
        /\ loc[1].balance.commitments =
              << [commitment |-> txlog[1].commitment, amount |-> 10, nonce |-> 0,
                  isSpent |-> FALSE] >>
        /\ loc[1].balance.totalBalance = 10

\* the getBalance after the deposit has returned
C19_Witness ==
    /\ DepositThenBalance
    /\ Len(commits) = 1
    /\ loc[1].scanned

\* C20: under any interleaving of concurrent init() callers the heavy
\* initialization is started at most once per instance, and a caller resumes
\* only after that one initialization has completed
C20_InitSingleFlight ==
    \A i \in Instances :
        /\ initStarts[i] <= 1
        /\ \A c \in Callers :
              icall[i][c] = "resumed" =>
                  /\ initialized[i]
                  /\ initStage[i] = "done"
                  /\ initStarts[i] = 1
        /\ (\E c \in Callers : icall[i][c] = "waiting") => initPromise[i] # "null"

\* three callers are awaiting the one initialization in flight
C20_Witness ==
    \E i \in Instances :
        /\ initStage[i] \in {"importing", "building"}
        /\ initStarts[i] = 1
        /\ \A c \in Callers : icall[i][c] = "waiting"

\* the wallet rejected the one signature request of the session that call p
\* made, and call p has ended: with no environment event and no signature
\* cached, no request was approved and none failed in transport
RejectedDuring(p) ==
    /\ loc[p].asked
    /\ pc[p] = "done"
    /\ signatureRejected
    /\ cachedSignature = None
    /\ env = 0

\* C21: a call whose signature request was rejected ends with
\* SignatureRejected: getBalance does not return a view with no record, and
\* withdraw does not report NoCommitments or InsufficientBalance instead
C21_RejectionNotSwallowed ==
    \A p \in Procs :
        RejectedDuring(p) => loc[p].result = "SignatureRejected"

\* C22: a signMessage failure that is the user's rejection sets the rejected
\* flag and the call fails with SignatureRejected; one that is a transport
\* error leaves the flag and the cache as they were, the call fails with the
\* distinct SignatureRequestFailed, and a manager that would prompt before
\* prompts again after (the error a scan receives is the matter of C21)
C22_SignFailureKinds ==
    [][\A p \in Procs : \A error \in SignErrors :
          SignThrows(p, error) =>
              IF error.cause = "user"
              THEN /\ signatureRejected'
                   /\ loc[p].ctx # "scan" => loc'[p].result = "SignatureRejected"
              ELSE /\ signatureRejected' = signatureRejected
                   /\ cachedSignature' = cachedSignature
                   /\ loc[p].ctx # "scan" => loc'[p].result = "SignatureRequestFailed"
                   /\ GetWalletSignature(cachedSignature', signatureRejected')
                        = GetWalletSignature(cachedSignature, signatureRejected)
       ]_vars

\* C23: every integer v with 0 <= v < 2^256 is encoded in exactly 32 bytes,
\* and decoding them gives v again, with bigIntToBuffer / bufferToBigInt and
\* with the encoder of deposit paired with the decoder of getBalance
C23_RoundTrip ==
    (input.fn \in {"utils", "inline"} /\ output # None) =>
        /\ Len(output.bytes) = EncLen
        /\ \A k \in 1..EncLen : output.bytes[k] \in 0..(ByteValues - 1)
        /\ output.value = input.value

\* the integer 1, whose encoding is zero bytes and a last byte of one, has made
\* the round trip through bigIntToBuffer
C23_Witness ==
    /\ input = [fn |-> "utils", value |-> 1]
    /\ output # None
    /\ output.bytes = [k \in 1..EncLen |-> IF k = EncLen THEN 1 ELSE 0]

OversizeCall ==
    /\ input.fn \in {"computeCommitment", "computeNullifier", "deriveSecret"}
    /\ \E k \in 1..Len(input.inputs) : input.inputs[k] > FieldModulus

\* C25: computeCommitment, computeNullifier and the hash of deriveSecret fail
\* with InvalidInput when an input exceeds the field modulus, and return no
\* hash value for it
C25_OversizeInputRejected ==
    (OversizeCall /\ output # None) =>
        /\ output.threw = "InvalidInput"
        /\ output.value = None

\* C26: createPaymentRequest never submits a cancel for a request it found
\* at the derived address with the status Paid or Expired
C26_PaidOrExpiredNotCancelled ==
    \A i \in 1..Len(prLog) :
        prLog[i].kind = "cancel" => prLog[i].seen \notin {"Paid", "Expired"}

\* C27: a deposit or withdrawal whose simulation reported an error has failed
\* with an error that carries the ledger's logs, and it ended there: the
\* simulation was not run again and its transaction was not submitted
C27_SimulationFailureReported ==
    \A p \in Procs :
        loc[p].result = "SimulationFailed" =>
            /\ loc[p].logs
            /\ pc[p] = "done"
            /\ ~loc[p].simulated

\* the secrets deriveSecret gives under a signature, for every slot index of
\* the scan and every vocabulary amount
SecretsUnder(signature) ==
    [nonce \in 0..(ScanMaxNonce - 1) |->
        [ai \in 1..NumAmounts |-> DeriveSecretOf(signature, nonce, COMMON_AMOUNTS[ai])]]

\* C28: deriveSecret(wallet, nonce, amount) gives the same value every time it
\* is called with the same (nonce, amount) in a session: the derivations of
\* one call, with no clearCache between them, all give the secrets of one
\* signature
C28_DeriveSecretDeterministic ==
    [][\A p \in Procs :
          (/\ pc[p] \notin {"idle", "done"}
           /\ loc[p].sigUsed # None
           /\ loc'[p].sigUsed # None
           /\ ~ClearCache) =>
              SecretsUnder(loc'[p].sigUsed) = SecretsUnder(loc[p].sigUsed)
       ]_vars

AmountIndex(amount) == CHOOSE ai \in 1..NumAmounts : COMMON_AMOUNTS[ai] = amount

\* C30: once a candidate matches a ledger element the scan computes no
\* further candidate for that element, neither a further slot index nor a
\* further amount
C30_ScanStopsAtMatch ==
    \A p \in Procs :
        (pc[p] = "gb_check" /\ loc[p].sigUsed # None) =>
            \A i \in 1..Len(loc[p].accounts) :
                \A k \in ReportsOf(loc[p].owned, loc[p].accounts[i]) :
                    LET o == loc[p].owned[k]
                        match == CandidateIndex(i, AmountIndex(o.amount), o.nonce)
                    IN \A c \in CandidatesTried(loc[p].sigUsed, loc[p].accounts[i],
                                                i, loc[p].cursor) :
                           CandidateIndex(i, c[1], c[2]) <= match

RECURSIVE BigEndianValue(_, _)
\* the unsigned integer whose big-endian representation is the first n of bytes
BigEndianValue(bytes, n) ==
    IF n = 0 THEN 0
    ELSE BigEndianValue(bytes, n - 1) * ByteValues + bytes[n]

\* C31: deriveMasterKey returns the unsigned integer whose big-endian
\* representation is the first 31 bytes of the signature; two signatures with
\* the same first 31 bytes give the same key, and the key is below 2^248
C31_MasterKeyIsPrefix ==
    (input.fn = "deriveMasterKey" /\ output # None) =>
        /\ output.masterKey = BigEndianValue(input.signature, KeyBytes)
        /\ output.masterKey >= 0
        /\ output.masterKey < Power(ByteValues, KeyBytes)
        /\ \A other \in MasterKeySignatures :
              Slice(other, KeyBytes) = Slice(input.signature, KeyBytes)
                  => deriveMasterKey(other) = output.masterKey

\* a key whose first byte is zero and whose tail is not, so that neither a
\* missing leading zero nor the tail is in the result
C31_Witness ==
    /\ input.fn = "deriveMasterKey"
    /\ output # None
    /\ input.signature[1] = 0
    /\ input.signature[2] # 0
    /\ input.signature[KeyBytes + 1] # 0

\* C32: createPaymentRequest rejects an amount outside the vocabulary before any
\* ledger lookup or transaction: such a call never waits for the ledger and
\* no instruction carries its amount; a call with an amount of the vocabulary
\* and a connected wallet is not stopped by the check
C32_AmountValidatedFirst ==
    /\ \A c \in V5Calls :
          prPc[c] # "idle" =>
              IF InVocabulary(prLoc[c].amount)
              THEN prLoc[c].connected =>
                      prLoc[c].result \notin {"InvalidAmount", "WalletNotConnected"}
              ELSE /\ prPc[c] = "done"
                   /\ prLoc[c].result \in {"InvalidAmount", "WalletNotConnected"}
    /\ \A k \in 1..Len(prLog) : InVocabulary(prLog[k].address[1])

\* one call was rejected for its amount with the wallet connected, another
\* with an amount of the vocabulary has gone on to the ledger
C32_Witness ==
    \E c, d \in V5Calls :
        /\ prPc[c] = "done"
        /\ prLoc[c].connected
        /\ ~InVocabulary(prLoc[c].amount)
        /\ prLoc[c].result = "InvalidAmount"
        /\ InVocabulary(prLoc[d].amount)
        /\ prLoc[d].connected
        /\ prPc[d] = "done"
        /\ prLoc[d].result = "ok"

\* a getBalance called now reports the commitment among the owned ones
ReportedNow(commitment) ==
    \E k \in 1..Len(BalanceNow.commitments) :
        BalanceNow.commitments[k].commitment = commitment

\* C33: every successful deposit uses a slot index below the scanner's
\* maximum, and its commitment (of an amount of the vocabulary) is reported
\* by a getBalance with the same signature
C33_DepositSlotBelowScanMax ==
    \A p \in Procs :
        (loc[p].op = "deposit" /\ loc[p].result = "ok") =>
            /\ loc[p].nonce \in 0..(ScanMaxNonce - 1)
            /\ (InVocabulary(loc[p].amount) /\ cachedSignature = loc[p].sigUsed) =>
                   ReportedNow(loc[p].commitment)

\* a withdraw has chosen its path: its transaction is built
PathTaken(p) ==
    /\ loc[p].op = "withdraw"
    /\ pc[p] \in {"wd_sim", "wd_send"} \/ loc[p].result \in {"ok", "SimulationFailed", "TransactionFailed"}
    /\ loc[p].selected # NoRecord

\* C34: withdraw takes the simple path exactly when the selected commitment's
\* amount equals the requested amount; otherwise the path with change, with
\* changeAmount > 0, withdrawAmount + changeAmount the selected commitment's
\* amount and the change commitment H(changeAmount, newSecret)
C34_WithdrawPath ==
    \A p \in Procs :
        (PathTaken(p) /\ (pc[p] \in {"wd_sim", "wd_send"} \/ loc[p].simulated)) =>
            LET tx == WithdrawalTx(loc[p])
            IN /\ tx.kind = "withdraw" <=> loc[p].selected.amount = loc[p].amount
               /\ tx.kind # "withdraw" =>
                     /\ tx.kind = "withdrawWithChange"
                     /\ loc[p].change > 0
                     /\ loc[p].amount + loc[p].change = loc[p].selected.amount
                     /\ \E r \in 0..MaxOps :
                           tx.commitment = computeCommitment(loc[p].change, RandomSecret(r))

\* two withdrawals selected the same commitment of 0.5 SOL: the one of 0.5 SOL
\* was executed on the simple path, the one of 0.1 SOL is about to send its
\* transaction with change
C34_Witness ==
    \E p, q \in Procs :
        /\ PathTaken(p) /\ PathTaken(q)
        /\ loc[p].result = "ok" /\ loc[p].change = 0
        /\ loc[p].selected.amount = loc[p].amount
        /\ pc[q] = "wd_send" /\ loc[q].change > 0

\* C35: callers of getWalletSignature that arrive before a signature is cached
\* share one signMessage invocation: never two calls wait in signMessage at
\* once, and (with no wallet switch or clearCache between) all callers hold
\* the same signature
C35_SignatureSingleFlight ==
    /\ \A p, q \in Procs : (pc[p] = "sign_wait" /\ pc[q] = "sign_wait") => p = q
    /\ env = 0 =>
          \A p, q \in Procs :
              (loc[p].sigUsed # None /\ loc[q].sigUsed # None) =>
                  loc[p].sigUsed = loc[q].sigUsed

\* C36: during one scanCommitments run signMessage is invoked at most once,
\* whatever its outcome (stated for the runs whose only operation is one
\* getBalance, so that every prompt is one of its scan)
C36_OnePromptPerScan ==
    \A p \in Procs :
        (ops = 1 /\ loc[p].op = "balance") => prompts <= 1

\* C37: cachedSignature # null and signatureRejected = true never hold at the
\* same time, and clearCache leaves cachedSignature = null and
\* signatureRejected = false
C37_CacheAndFlagExclusive ==
    /\ [](~(cachedSignature # None /\ signatureRejected))
    /\ [][ClearCache => (cachedSignature' = None /\ ~signatureRejected')]_vars

\* C38: privacyTransfer probes the slots 0, 1, 2, ... in order, at most
\* MAX_NONCE_ATTEMPTS of them; it leaves the loop at a slot observed absent
\* with every smaller slot in use, and its transaction carries that slot;
\* with every slot in use it fails having neither created the payee's token
\* account nor submitted the transfer
C38_ProbeLoop ==
    /\ [](\A c \in PtCalls :
            /\ Len(ptLoc[c].probed) <= MAX_NONCE_ATTEMPTS
            /\ \A i \in 1..Len(ptLoc[c].probed) : ptLoc[c].probed[i] = i - 1
            /\ ptLoc[c].result = "NoUnusedNonce" =>
                  /\ Len(ptLoc[c].probed) = MAX_NONCE_ATTEMPTS
                  /\ ~ptLoc[c].created
                  /\ ~ptLoc[c].submitted
            /\ (ptPc[c] \in {"ata", "create", "transfer"} \/ ptLoc[c].submitted) =>
                  /\ ptLoc[c].nonce = ptLoc[c].probed[Len(ptLoc[c].probed)]
                  /\ \A n \in 0..(ptLoc[c].nonce - 1) :
                        <<PtAmountOf(ptLoc[c].request), n>> \in commitmentAccounts)
    /\ [](\A k \in 1..Len(ptLog) :
            ptLog[k].kind = "privacyTransfer" =>
                \A n \in 0..(ptLog[k].account[2] - 1) :
                    <<ptLog[k].account[1], n>> \in commitmentAccounts)
    /\ [][\A c \in PtCalls :
            (ptPc[c] = "probe" /\ ptPc'[c] = "ata") =>
                /\ PtAccountOf(ptLoc[c]) \notin commitmentAccounts
                /\ ptLoc'[c].nonce = ptLoc[c].nonce]_vars

\* one transfer found every slot of its amount in use and failed, another
\* went through at a slot after the first
C38_Witness ==
    \E c, d \in PtCalls :
        /\ ptLoc[c].result = "NoUnusedNonce"
        /\ ptLoc[d].result = "ok"
        /\ ptLoc[d].nonce > 0
        /\ \E k \in 1..Len(ptLog) :
              /\ ptLog[k].kind = "privacyTransfer"
              /\ ptLog[k].call = d
              /\ ptLog[k].account[2] = ptLoc[d].nonce

\* C39: a failed initialization is permanent: after the first attempt of an
\* instance rejected, initialized stays false, no init() call resumes or
\* starts a new attempt, and an init() call made after the failure joins the
\* rejected promise
C39_InitFailurePermanent ==
    /\ [](\A i \in Instances :
            initStage[i] = "failed" =>
                /\ ~initialized[i]
                /\ initPromise[i] = "rejected"
                /\ initStarts[i] = 1
                /\ \A c \in Callers : icall[i][c] # "resumed")
    /\ [][\A i \in Instances :
            initStage[i] = "failed" =>
                /\ initStage'[i] = "failed"
                /\ initStarts'[i] = initStarts[i]
                /\ \A c \in Callers :
                      (icall[i][c] = "idle" /\ icall'[i][c] # "idle") =>
                          icall'[i][c] = "waiting"
                /\ \A c \in Callers :
                      (icall[i][c] = "waiting" /\ icall'[i][c] # "waiting") =>
                          icall'[i][c] = "failed"]_vars

\* the initialization of an instance failed and each of the three init()
\* calls, those made after the failure included, has been rejected
C39_Witness ==
    \E i \in Instances :
        /\ initStage[i] = "failed"
        /\ initStarts[i] = 1
        /\ \A c \in Callers : icall[i][c] = "failed"

\* C40: loginWithWallet returns success only for a wallet with a user, a
\* message equal to the user's stored nonce and a signature that verifies for
\* the wallet; a (message, signature) pair that gave a successful login is not
\* accepted by a later loginWithWallet call
C40_LoginNonceSingleUse ==
    /\ \A k \in 1..Len(loginLog) :
          loginLog[k].status = "success" =>
              /\ loginLog[k].stored # NoUser
              /\ loginLog[k].stored = loginLog[k].message
              /\ verifyWalletSignature(loginLog[k].walletAddress, loginLog[k].signature,
                                       loginLog[k].message)
    /\ \A j, k \in 1..Len(loginLog) :
          (/\ j < k
           /\ loginLog[j].status = "success"
           /\ loginLog[k].status = "success"
           /\ loginLog[j].walletAddress = loginLog[k].walletAddress) =>
              <<loginLog[j].message, loginLog[j].signature>>
                  # <<loginLog[k].message, loginLog[k].signature>>

=============================================================================
